---- MODULE Spec2Model ----
(***************************************************************************)
(* State-machine model of tools/isobuild/import-scanner.ts (ImportScanner). *)
(*                                                                         *)
(* Representation.                                                         *)
(*  - A path or module identifier is the sequence of its "/"-separated     *)
(*    parts, exactly what String.prototype.split("/") yields: "/a/b" is    *)
(*    <<"", "a", "b">>, "a/b" is <<"a", "b">>, and the empty sequence is   *)
(*    the empty string / undefined (both falsy in the source).             *)
(*  - An optional property is a sequence of length 0 (absent) or 1.        *)
(*  - A string body is a sequence of tokens; a Buffer is the sequence of   *)
(*    the encoded tokens; a hash is a record wrapping the hashed Buffer.   *)
(*  - File objects live in a heap (a sequence of records); outputFiles and *)
(*    realPathToFiles hold heap references, because the source relies on   *)
(*    object identity (Object.assign into the old object, indexOf).        *)
(***************************************************************************)
EXTENDS Integers, Sequences, FiniteSets, TLC

\* ------------------------------------------------------------------ bounds

\* Number of calls explored on one scanner that bring new input: addInputFiles
\* calls and scanMissingModules calls with a non-empty map.
MaxCalls == 2

\* ------------------------------------------------------- generic helpers

None == <<>>
Some(x) == <<x>>
IsSome(o) == Len(o) = 1
Get(o) == o[1]

Last(s) == s[Len(s)]
Front(s) == SubSeq(s, 1, Len(s) - 1)

IndexOf(s, x) ==
  IF \E i \in DOMAIN s : s[i] = x
  THEN CHOOSE i \in DOMAIN s : s[i] = x /\ \A j \in 1..(i - 1) : s[j] # x
  ELSE 0

LastIndexOf(s, x) ==
  IF \E i \in DOMAIN s : s[i] = x
  THEN CHOOSE i \in DOMAIN s : s[i] = x /\ \A j \in (i + 1)..Len(s) : s[j] # x
  ELSE 0

IsPrefix(p, s) == Len(p) <= Len(s) /\ SubSeq(s, 1, Len(p)) = p

\* Update or extend a function at one key (a JS object property write).
Put(f, k, v) == [x \in DOMAIN f \cup {k} |-> IF x = k THEN v ELSE f[x]]

EmptyMap == [x \in {} |-> 0]

\* ------------------------------------------------------------ path layer

\* String.prototype.toLowerCase on one path part.
LowerPart(p) ==
  CASE p = "Main.js" -> "main.js"
    [] p = "Util.js" -> "util.js"
    [] OTHER -> p

\* toLowerCase leaving the case of the path as it is.
toLowerCaseKeepingCase(path) == path

toLowerCase(path) == [i \in DOMAIN path |-> LowerPart(path[i])]

RECURSIVE NormParts(_, _)
\* Resolve "." and ".." parts, as path.normalize does; acc is the result so far.
NormParts(parts, acc) ==
  IF parts = <<>> THEN acc
  ELSE LET h == Head(parts) t == Tail(parts) IN
       IF h = "." THEN NormParts(t, acc)
       ELSE IF h = ".." /\ acc # <<>> /\ Last(acc) \notin {"", ".."}
            THEN NormParts(t, Front(acc))
       ELSE IF h = ".." /\ acc = <<"">> THEN NormParts(t, acc)
       ELSE IF h = "" /\ acc # <<>> THEN NormParts(t, acc)
       ELSE NormParts(t, Append(acc, h))

pathNormalize(path) == NormParts(path, <<>>)

\* files.pathJoin: join with "/" and normalize; a leading slash of b is only a
\* separator when a is not empty.
pathJoin(a, b) ==
  pathNormalize(a \o (IF a # <<>> /\ b # <<>> /\ b[1] = "" THEN Tail(b) ELSE b))

pathDirname(path) == IF Len(path) <= 1 THEN path ELSE Front(path)

RECURSIVE CommonLen(_, _)
CommonLen(a, b) ==
  IF a = <<>> \/ b = <<>> \/ Head(a) # Head(b) THEN 0
  ELSE 1 + CommonLen(Tail(a), Tail(b))

\* files.pathRelative(from, to): ".." for every part of from outside the common
\* prefix, then the rest of to.
pathRelative(from, to) ==
  LET c == CommonLen(from, to) IN
  [i \in 1..(Len(from) - c) |-> ".."] \o SubSeq(to, c + 1, Len(to))

\* String.prototype.startsWith("..") on a relative path.
StartsWithDotDot(rel) == rel # <<>> /\ rel[1] = ".."

stripLeadingSlash(path) ==
  IF path # <<>> /\ path[1] = "" THEN Tail(path) ELSE path

ensureLeadingSlash(path) ==
  IF path = <<>> THEN path
  ELSE IF path[1] # "" THEN <<"">> \o path
  ELSE path

\* String.prototype.startsWith("/node_modules/").
StartsWithNodeModules(id) ==
  Len(id) >= 3 /\ id[1] = "" /\ id[2] = "node_modules"

\* String.prototype.endsWith("/package.json").
EndsWithPackageJson(id) ==
  Len(id) >= 2 /\ Last(id) = "package.json"

\* --------------------------------------------------------- content layer

\* Buffer.from(string, "utf8"): every token of the string encoded in place.
Utf8(str) == [i \in DOMAIN str |-> [byte |-> str[i]]]

\* buffer.toString("utf8").
Utf8ToString(buf) == [i \in DOMAIN buf |-> buf[i].byte]

\* watch.sha1(buffer): a collision-free digest of the bytes.
sha1(buf) == [sha1 |-> buf]

\* dataString.replace(/^#![^\n]*/, ""): drops a leading shebang line.
stripHashBang(str) ==
  IF str # <<>> /\ str[1].kind = "#!" THEN Tail(str) ELSE str

\* ------------------------------------------------------------- variables

VARIABLES
  bundleArch,            \* constructor option: the parts of the arch, split on "."
  name,                  \* constructor option: "" for an application scan
  heap,                  \* every File object the scanner holds a reference to
  outputFiles,           \* this.outputFiles: heap references, in push order
  absPathToOutputIndex,  \* this.absPathToOutputIndex: lower-cased path -> index
  realPathToFiles,       \* this.realPathToFiles: real path -> heap references
  allMissingModules,     \* this.allMissingModules: specifier -> ImportInfo list
  messages,              \* what was reported through buildmessage.error
  installed,             \* the file system: whether the npm package is installed
  project,               \* which files the compiler plugins of this build emit
  last,                  \* the last call made on the scanner and what it returned
  calls,                 \* addInputFiles and non-empty scanMissingModules calls so far
  stage,                 \* how the scanner has been driven so far (see Init)
  resolver,              \* the Resolver cached for the options: who statOrNull asks
  scanners,              \* scanners built with the same options: their file sets
  lastResolve,           \* the last resolve made by one of those scanners
  cacheFiles,            \* the files of cacheDir/bundleArch: name -> contents
  nextTicks,             \* per process: the callbacks queued with process.nextTick
  handled                \* what the last call of the js handler returned

\* The fields and the environment of the scanner that is driven alone.
scannerVars ==
  <<bundleArch, name, heap, outputFiles, absPathToOutputIndex, realPathToFiles,
    allMissingModules, messages, installed, project, last, calls, stage>>

\* The Resolver shared by scanners that are built with the same options.
sharedVars == <<resolver, scanners, lastResolve>>

\* The compile cache on disk and the writes on their way to it.
cacheVars == <<cacheFiles, nextTicks, handled>>

vars == <<scannerVars, sharedVars, cacheVars>>

\* ------------------------------------------------------ path/arch policy

sourceRoot == <<"", "app">>

nodeModulesPaths == << <<"", "app", "node_modules">> >>

\* archinfo.matches(arch, pattern): arch equals pattern or extends it by ".".
archMatches(arch, pattern) == IsPrefix(pattern, arch)

isWeb == ~ archMatches(bundleArch, <<"os">>)

\* isWebBrowser testing for any web architecture.
isWebBrowserMatchingWeb == archMatches(bundleArch, <<"web">>)

isWebBrowser == archMatches(bundleArch, <<"web", "browser">>)

\* this.name.replace(/^local-test[:_]/, "").
StrippedName ==
  CASE name = "local-test:pkg" -> "pkg"
    [] OTHER -> name

getNodeModulesAbsModuleId(absPath) ==
  LET hits == {i \in DOMAIN nodeModulesPaths :
                 ~ StartsWithDotDot(pathRelative(nodeModulesPaths[i], absPath))}
  IN IF hits = {} THEN <<>>
     ELSE LET i == CHOOSE i \in hits : \A j \in hits : i <= j IN
          ensureLeadingSlash(
            pathJoin(<<"node_modules">>, pathRelative(nodeModulesPaths[i], absPath)))

RECURSIVE DirsVerdictIgnoringArch(_, _)
\* A variant of the loop that does not look at the architecture: client and
\* server directories are walked through like any other.
DirsVerdictIgnoringArch(dirs, isApp) ==
  IF dirs = <<>> THEN "end"
  ELSE LET dir == Head(dirs) IN
       IF dir = ".hidden" THEN "reject"
       ELSE IF dir = "node_modules" THEN "accept"
       ELSE DirsVerdictIgnoringArch(Tail(dirs), isApp)

RECURSIVE DirsVerdict(_, _)
\* The loop over dirs of getSourceRootAbsModuleId: "reject", "accept" (inside a
\* node_modules directory) or "end" (the loop ran out).
DirsVerdict(dirs, isApp) ==
  IF dirs = <<>> THEN "end"
  ELSE LET dir == Head(dirs) IN
       IF dir = ".hidden" THEN "reject"   \* dir.charAt(0) === "."
       ELSE IF isApp /\ isWeb /\ dir = "server" THEN "reject"
       ELSE IF isApp /\ ~ isWeb /\ dir = "client" THEN "reject"
       ELSE IF dir = "node_modules" THEN "accept"
       ELSE DirsVerdict(Tail(dirs), isApp)

getSourceRootAbsModuleId(absPath) ==
  LET relPath == pathRelative(sourceRoot, absPath) IN
  IF StartsWithDotDot(relPath) \/ relPath = <<>> THEN <<>>
  ELSE LET dirs == Front(relPath) IN
       IF dirs # <<>> /\
          dirs[1] \in {"private", "packages", "programs", "cordova-build-override"}
       THEN <<>>
       ELSE IF DirsVerdict(dirs, name = "") = "reject" THEN <<>>
       ELSE ensureLeadingSlash(relPath)

\* a || b on two module identifiers (the empty one stands for undefined).
OrElse(a, b) == IF a # <<>> THEN a ELSE b

\* The end of getAbsModuleId: inside a package, the identifier is rooted at
\* /node_modules/meteor/<package name>.
PackageModuleId(path) ==
  IF path = <<>> THEN <<>>
  ELSE IF name # ""
       THEN ensureLeadingSlash(
              pathJoin(<<"node_modules", "meteor", StrippedName>>, path))
  ELSE ensureLeadingSlash(path)

getAbsModuleId(absPath) ==
  PackageModuleId(OrElse(getNodeModulesAbsModuleId(absPath),
                         getSourceRootAbsModuleId(absPath)))

\* posix.relative(posix.dirname(absParentId), absChildId), made a valid relative
\* identifier by prepending "./" when it starts with neither "." nor "/".
getRelativeImportId(absParentId, absChildId) ==
  LET relativeId == pathRelative(pathDirname(absParentId), absChildId) IN
  IF relativeId = <<>> \/ relativeId[1] \in {"..", ".", ""}
  THEN relativeId
  ELSE <<".">> \o relativeId

\* A variant that does not set the prefix of a Meteor package apart.
shouldUseNodeAnyNodeModules(absModuleId) ==
  IF isWeb THEN FALSE
  ELSE \E i \in DOMAIN absModuleId : absModuleId[i] = "node_modules"

shouldUseNode(absModuleId) ==
  IF isWeb THEN FALSE
  ELSE LET s0 == IF absModuleId # <<>> /\ absModuleId[1] = "" THEN 1 ELSE 0
           s1 == IF Len(absModuleId) >= s0 + 2 /\
                    absModuleId[s0 + 1] = "node_modules" /\
                    absModuleId[s0 + 2] = "meteor"
                 THEN s0 + 2 ELSE s0
       IN \E i \in (s1 + 1)..Len(absModuleId) : absModuleId[i] = "node_modules"

\* ----------------------------------------------------------- file system

\* The regular files of the disk. The react package appears when it is installed.
DiskFiles ==
  { <<"", "app", "util.js">>,
    <<"", "app", "lazy.js">>,
    <<"", "app", "deep.js">>,
    <<"", "app", "peer.js">>,
    <<"", "app", "bad.js">>,
    <<"", "app", "lib", "x.js">>,
    <<"", "app", "node_modules", "x.js">>,
    <<"", "app", "client", "d.js">>,
    <<"", "app", "server", "s.js">>,
    <<"", "app", "node_modules", "lib2", "client", "n.js">>,
    <<"", "app", "imports", "node_modules", "pkg", "server", "y.js">>,
    <<"", "app", "node_modules", "@s", "a", "package.json">>,
    <<"", "app", "node_modules", "@s", "a", "index.js">>,
    <<"", "app", "node_modules", "@s", "a", "node.js">>,
    <<"", "app", "node_modules", "@s", "a", "web.js">>,
    <<"", "app", "node_modules", "@s", "b", "x.js">>,
    <<"", "app", "node_modules", "pb", "y.js">> }
  \cup (IF installed
        THEN { <<"", "app", "node_modules", "react", "package.json">>,
               <<"", "app", "node_modules", "react", "index.js">> }
        ELSE {})

DiskDirs ==
  { <<"", "app">>, <<"", "app", "lib">>, <<"", "app", "node_modules">>,
    <<"", "app", "client">>, <<"", "app", "server">>,
    <<"", "app", "node_modules", "lib2">>,
    <<"", "app", "node_modules", "lib2", "client">>,
    <<"", "app", "imports">>, <<"", "app", "imports", "node_modules">>,
    <<"", "app", "imports", "node_modules", "pkg">>,
    <<"", "app", "imports", "node_modules", "pkg", "server">>,
    <<"", "app", "node_modules", "@s">>,
    <<"", "app", "node_modules", "@s", "a">>,
    <<"", "app", "node_modules", "@s", "b">>,
    <<"", "app", "node_modules", "pb">> }
  \cup (IF installed THEN { <<"", "app", "node_modules", "react">> } ELSE {})

\* Symbolic links: link path -> the real path it points to.
SymLinks == { [link |-> <<"", "app", "node_modules", "x.js">>,
               target |-> <<"", "app", "lib", "x.js">>] }

isSymbolicLink(path) == \E l \in SymLinks : l.link = path

\* files.realpathOrNull: the path with its symbolic-link prefix replaced.
realpathOrNull(absPath) ==
  IF \E l \in SymLinks : IsPrefix(l.link, absPath)
  THEN LET l == CHOOSE l \in SymLinks : IsPrefix(l.link, absPath) IN
       l.target \o SubSeq(absPath, Len(l.link) + 1, Len(absPath))
  ELSE absPath

\* A token of a module body: kind says what it is, id is the specifier of an
\* import token (empty otherwise).
Tok(kind, id) == [kind |-> kind, id |-> id]
Text(kind) == Tok(kind, <<>>)

\* The contents of the regular file at a real path.
BodyAt(real) ==
  CASE real = <<"", "app", "util.js">> -> << Text("u") >>
    [] real = <<"", "app", "lazy.js">> ->
         << Tok("import", <<".", "deep.js">>), Tok("import", <<".", "bad.js">>) >>
    [] real = <<"", "app", "bad.js">> ->
         << Tok("import", <<".", "util.js">>), Text("syntax_error") >>
    [] real = <<"", "app", "deep.js">> ->
         << Tok("import", <<".", "lazy.js">>), Tok("import", <<".", "util.js">>) >>
    [] real = <<"", "app", "peer.js">> ->
         << Tok("import", <<"react">>), Tok("import()", <<"vue">>),
            Tok("import", <<".", "bad.js">>), Tok("import", <<".", "util.js">>),
            Tok("import", <<".", "peer.js">>) >>
    [] real = <<"", "app", "lib", "x.js">> ->
         << Text("BOM"), Tok("import", <<".", "util.js">>) >>
    [] real = <<"", "app", "node_modules", "react", "index.js">> -> << Text("r") >>
    [] real = <<"", "app", "client", "d.js">> -> << Text("d") >>
    [] real = <<"", "app", "node_modules", "@s", "a", "package.json">> ->
         << Text("{name:@s/a,main:index.js,browser:{..}}") >>
    [] real = <<"", "app", "node_modules", "@s", "a", "index.js">> ->
         << Tok("import", <<".", "node.js">>) >>
    [] real = <<"", "app", "node_modules", "@s", "a", "node.js">> -> << Text("an") >>
    [] real = <<"", "app", "node_modules", "@s", "a", "web.js">> -> << Text("aw") >>
    [] real = <<"", "app", "node_modules", "@s", "b", "x.js">> -> << Text("bx") >>
    [] real = <<"", "app", "node_modules", "pb", "y.js">> -> << Text("py") >>
    [] real = <<"", "app", "server", "s.js">> -> << Text("s") >>
    [] real = <<"", "app", "node_modules", "lib2", "client", "n.js">> -> << Text("n") >>
    [] real = <<"", "app", "imports", "node_modules", "pkg", "server", "y.js">> ->
         << Text("y") >>
    [] real = <<"", "app", "node_modules", "react", "package.json">> ->
         << Text("{name:react,main:index.js,scripts:{..},_id:1}") >>
    [] OTHER -> << >>

\* optimisticReadFile: the bytes on disk (read through symbolic links).
DiskBody(absPath) == BodyAt(realpathOrNull(absPath))

optimisticReadFile(absPath) == Utf8(DiskBody(absPath))

optimisticHashOrNull(absPath) == sha1(optimisticReadFile(absPath))

\* The browser field of the package.json of @s/a, as the list of its keys
\* with their values (an empty target stands for the value false): a module
\* of the package itself, a module of @s/b, a package of the same npm scope,
\* and a module of the package pb.
BrowserOfScopedA ==
  << [source |-> <<".", "node.js">>, target |-> <<".", "web.js">>],
     [source |-> <<"..", "b", "x.js">>, target |-> <<".", "web.js">>],
     [source |-> <<"..", "..", "pb", "y.js">>, target |-> <<>>] >>

\* JSON.parse of a package.json body: the fields the scanner looks at, whether
\* the object has root properties that start with an underscore (private), and
\* whether it has the scripts field, which the Resolver leaves out of the
\* subset it hands over.
JSONparse(str) ==
  IF str = << Text("{name:react,main:index.js,scripts:{..},_id:1}") >>
  THEN [pkgName |-> "react", main |-> <<"index.js">>, private |-> TRUE,
        browser |-> <<>>, scripts |-> TRUE]
  ELSE IF str = << Text("{name:@s/a,main:index.js,browser:{..}}") >>
  THEN [pkgName |-> "@s/a", main |-> <<"index.js">>, private |-> FALSE,
        browser |-> BrowserOfScopedA, scripts |-> FALSE]
  ELSE [pkgName |-> "", main |-> <<>>, private |-> FALSE, browser |-> <<>>,
        scripts |-> FALSE]

\* JSON.stringify(data, null, 2).
JSONstringify(json) ==
  IF json.pkgName = "react"
  THEN (IF json.private /\ json.scripts
        THEN Text("{name:react,main:index.js,scripts:{..},_id:1}")
        ELSE IF json.private THEN Text("{name:react,main:index.js,_id:1}")
        ELSE IF json.scripts THEN Text("{name:react,main:index.js,scripts:{..}}")
        ELSE Text("{name:react,main:index.js}"))
  ELSE IF json.pkgName = "@s/a"
  THEN Text("{name:@s/a,main:index.js,browser:{..}}")
  ELSE Text("{}")

jsonDataToCommonJS(json) ==
  << Text("module.exports = "), JSONstringify(json), Text(";\n") >>

\* reify's compile of one source token: an import declaration becomes a
\* module.link call, everything else is kept.
ReifyToken(tok) ==
  IF tok.kind = "import" THEN Tok("module.link", tok.id) ELSE tok

reifyCompile(str) == [i \in DOMAIN str |-> ReifyToken(str[i])]

\* js-analyze's findImportedModuleIdentifiers on a body: the specifiers of its
\* import tokens, in order of first appearance, with their dynamic flag.
IsImportTok(tok) == tok.kind \in {"import", "module.link", "import()"}

RECURSIVE ImportedIdentifiers(_, _)
ImportedIdentifiers(str, acc) ==
  IF str = <<>> THEN acc
  ELSE LET tok == Head(str) IN
       IF ~ IsImportTok(tok) THEN ImportedIdentifiers(Tail(str), acc)
       ELSE LET dyn == tok.kind = "import()"
                k == IF \E i \in DOMAIN acc : acc[i].id = tok.id
                     THEN CHOOSE i \in DOMAIN acc : acc[i].id = tok.id ELSE 0
            IN IF k = 0
               THEN ImportedIdentifiers(Tail(str),
                      Append(acc, [id |-> tok.id, dynamic |-> dyn]))
               ELSE ImportedIdentifiers(Tail(str),
                      [acc EXCEPT ![k].dynamic = acc[k].dynamic /\ dyn])

\* Whether js-analyze throws a $ParseError on this body.
HasParseError(str) == \E i \in DOMAIN str : str[i].kind = "syntax_error"

\* e.loc of the ParseError: the place of the first token that does not parse
\* (each token of a body stands for one line).
ParseErrorLoc(str) ==
  [line |-> CHOOSE i \in DOMAIN str :
              /\ str[i].kind = "syntax_error"
              /\ \A j \in DOMAIN str : str[j].kind = "syntax_error" => i <= j,
   column |-> 0]

\* ------------------------------------------------------------ file model

\* importedStatusOrder.indexOf(status).
importedStatusOrder(status) ==
  CASE status = "false" -> 0
    [] status = "dynamic" -> 1
    [] status = "static" -> 2

\* An ImportInfo as js-analyze or the scanner creates it.
ImportInfo(parentPath, dynamic, parentWasDynamic, possiblySpurious) ==
  [parentPath |-> parentPath, dynamic |-> dynamic,
   parentWasDynamic |-> parentWasDynamic, possiblySpurious |-> possiblySpurious,
   helpers |-> EmptyMap]

Dep(id, info) == [id |-> id, info |-> info]

\* A File object with no property set.
BlankFile ==
  [absPath |-> <<>>, sourcePath |-> <<>>, targetPath |-> None, servePath |-> <<>>,
   absModuleId |-> <<>>, data |-> None, dataString |-> None, hash |-> None,
   type |-> "", lazy |-> None, bare |-> None, imported |-> "false",
   implicit |-> None, deps |-> None, missingModules |-> EmptyMap, alias |-> None,
   jsonData |-> None, hasErrors |-> FALSE, pendingErrors |-> 0, fake |-> FALSE]

\* The deps js-analyze yields for a body.
DepsOfBody(str) ==
  LET ids == ImportedIdentifiers(str, <<>>) IN
  [i \in DOMAIN ids |->
     Dep(ids[i].id, ImportInfo(None, ids[i].dynamic, FALSE, FALSE))]

HasDep(file, id) ==
  IsSome(file.deps) /\ \E i \in DOMAIN Get(file.deps) : Get(file.deps)[i].id = id

DepIndex(file, id) ==
  CHOOSE i \in DOMAIN Get(file.deps) : Get(file.deps)[i].id = id

\* deps[id] = info: a property write keeps the position of an existing key.
SetDep(deps, id, info) ==
  IF \E i \in DOMAIN deps : deps[i].id = id
  THEN [i \in DOMAIN deps |-> IF deps[i].id = id THEN Dep(id, info) ELSE deps[i]]
  ELSE Append(deps, Dep(id, info))

\* -------------------------------------------------------- scanner state

\* The mutable state of one scanner while an operation runs. ref 0 is the
\* synthetic parent scanMissingModules is walking (never stored in the heap).
\* visits is the log of the calls of scanFile that did not return at once:
\* the file and its imported status before and after setImportedStatus.
ScannerState ==
  [heap |-> heap, out |-> outputFiles, idx |-> absPathToOutputIndex,
   rp |-> realPathToFiles, missing |-> allMissingModules, msgs |-> messages,
   thrown |-> "", fakeFile |-> None, visits |-> <<>>]

Obj(st, ref) == IF ref = 0 THEN Get(st.fakeFile) ELSE st.heap[ref]

SetObj(st, ref, file) ==
  IF ref = 0 THEN [st EXCEPT !.fakeFile = Some(file)]
  ELSE [st EXCEPT !.heap[ref] = file]

Alloc(st, file) == [st EXCEPT !.heap = Append(st.heap, file)]

\* getFile: the reference stored under the lower-cased path, or -1.
getFile(st, absPath) ==
  LET key == toLowerCase(absPath) IN
  IF key \in DOMAIN st.idx THEN st.out[st.idx[key]] ELSE -1

\* Object.assign(old, {implicit: file.implicit || false}, file): every own
\* property of file overwrites old's.
ObjectAssignFile(old, file) ==
  [old EXCEPT
     !.implicit = IF IsSome(file.implicit) THEN file.implicit ELSE Some(FALSE),
     !.absPath = IF file.absPath # <<>> THEN file.absPath ELSE @,
     !.sourcePath = file.sourcePath,
     !.targetPath = IF IsSome(file.targetPath) THEN file.targetPath ELSE @,
     !.servePath = IF file.servePath # <<>> THEN file.servePath ELSE @,
     !.absModuleId = file.absModuleId,
     !.data = IF IsSome(file.data) THEN file.data ELSE @,
     !.dataString = IF IsSome(file.dataString) THEN file.dataString ELSE @,
     !.hash = IF IsSome(file.hash) THEN file.hash ELSE @,
     !.type = IF file.type # "" THEN file.type ELSE @,
     !.lazy = IF IsSome(file.lazy) THEN file.lazy ELSE @,
     !.bare = IF IsSome(file.bare) THEN file.bare ELSE @,
     !.imported = file.imported,
     !.deps = IF IsSome(file.deps) THEN file.deps ELSE @,
     !.alias = IF IsSome(file.alias) THEN file.alias ELSE @,
     !.jsonData = IF IsSome(file.jsonData) THEN file.jsonData ELSE @,
     !.pendingErrors = IF file.pendingErrors > 0 THEN file.pendingErrors ELSE @]

\* addFile(absPath, file) for a heap object ref. The result is the state and
\* the returned reference (-1 for undefined).
addFile(st, absPath, ref) ==
  IF Obj(st, ref).fake THEN [st |-> st, ret |-> ref]
  ELSE LET key == toLowerCase(absPath) IN
       IF key \in DOMAIN st.idx
       THEN LET oldRef == st.out[st.idx[key]]
                old == st.heap[oldRef]
            IN IF old.implicit = Some(TRUE)
               THEN [st |-> SetObj(st, oldRef, ObjectAssignFile(old, Obj(st, ref))),
                     ret |-> oldRef]
               ELSE IF Obj(st, ref).implicit = Some(TRUE)
               THEN [st |-> st, ret |-> oldRef]
               ELSE [st |-> st, ret |-> -1]
       ELSE [st |-> [st EXCEPT !.out = Append(st.out, ref),
                               !.idx = Put(st.idx, key, Len(st.out) + 1)],
             ret |-> ref]

\* realPath(absPath): the real path when a part of the path inside sourceRoot is
\* a symbolic link, the path itself otherwise. (The file system's links do not
\* change, so realPathCache returns what this computes.)
realPath(absPath) ==
  LET rel == pathRelative(sourceRoot, absPath) IN
  IF StartsWithDotDot(rel) THEN absPath
  ELSE IF \E n \in 1..Len(rel) : isSymbolicLink(sourceRoot \o SubSeq(rel, 1, n))
       THEN realpathOrNull(absPath)
       ELSE absPath

addFileByRealPath(st, ref, real) ==
  LET files == IF real \in DOMAIN st.rp THEN st.rp[real] ELSE <<>> IN
  [st EXCEPT !.rp = Put(st.rp, real,
                        IF IndexOf(files, ref) = 0 THEN Append(files, ref)
                        ELSE files)]

\* -------------------------------------------------------------- handlers

\* DefaultHandlers.js (no cacheDir configured): core-js is passed through,
\* every other module is compiled by reify.
HandlerJs(file) ==
  LET nmi == LastIndexOf(file.absPath, "node_modules") IN
  IF nmi > 0 /\ nmi < Len(file.absPath) /\ file.absPath[nmi + 1] = "core-js"
  THEN stripHashBang(Get(file.dataString))
  ELSE reifyCompile(stripHashBang(Get(file.dataString)))

\* A variant of getCacheFileName that leaves the hash out of the name.
getCacheFileNameWithoutHash(file) == <<"reify-", ".js">>

\* getCacheFileName(file), inside cacheDir/bundleArch.
getCacheFileName(file) == <<"reify-", Get(file.hash), ".js">>

\* DefaultHandlers.js with a cacheDir, the cache directory holding files: the
\* body read from the cache file when there is one, else the compiled body.
jsWithCacheDir(file, files) ==
  LET nmi == LastIndexOf(file.absPath, "node_modules") IN
  IF nmi > 0 /\ nmi < Len(file.absPath) /\ file.absPath[nmi + 1] = "core-js"
  THEN [code |-> stripHashBang(Get(file.dataString)), hit |-> FALSE, tick |-> <<>>]
  ELSE IF getCacheFileName(file) \in DOMAIN files
  THEN [code |-> files[getCacheFileName(file)], hit |-> TRUE, tick |-> <<>>]
  ELSE [code |-> reifyCompile(stripHashBang(Get(file.dataString))),
        hit |-> FALSE,
        tick |-> << [cacheFileName |-> getCacheFileName(file),
                     code |-> reifyCompile(stripHashBang(Get(file.dataString))),
                     written |-> 0] >>]

\* cssToCommonJS(dataString, hash): the stylesheet wrapped in the import shim.
cssToCommonJS(str) == << Text("cssToCommonJS(") >> \o str \o << Text(")") >>

\* this.defaultHandlers[type](file): the file with its transcoded body in
\* dataString (the json handler also sets jsonData).
ApplyHandler(type, file) ==
  CASE type = "json" ->
         [file EXCEPT !.jsonData = Some(JSONparse(Get(file.dataString))),
                      !.dataString =
                         Some(jsonDataToCommonJS(JSONparse(Get(file.dataString))))]
    [] type = "css" ->
         [file EXCEPT !.dataString = Some(cssToCommonJS(Get(file.dataString)))]
    [] OTHER -> [file EXCEPT !.dataString = Some(HandlerJs(file))]

\* The end of getDataString and of readModule: data is encoded again when the
\* handler has changed the string.
EncodeIfChanged(file, dataString) ==
  IF Get(file.dataString) # dataString
  THEN [file EXCEPT !.data = Some(Utf8(Get(file.dataString)))]
  ELSE file

\* The dataString getDataString stores on a file whose data decodes to
\* rawDataString.
WithDataString(file, rawDataString) ==
  IF file.type = "js"
  THEN [file EXCEPT !.dataString = Some(stripHashBang(rawDataString))]
  ELSE ApplyHandler(file.type, [file EXCEPT !.dataString = Some(rawDataString)])

\* getDataString(file): the file as the call leaves it; its dataString is the
\* returned string.
getDataString(file) ==
  IF IsSome(file.dataString) THEN file
  ELSE EncodeIfChanged(WithDataString(file, Utf8ToString(Get(file.data))),
                       Utf8ToString(Get(file.data)))

\* ---------------------------------------------------------- addInputFiles

\* getSourcePath(file) for a file that names its sourcePath (every seed of the
\* model does, inside sourceRoot).
getSourcePath(file) ==
  IF file.sourcePath # <<>> /\ file.sourcePath[1] = ""
  THEN pathNormalize(pathJoin(<<".">>, pathRelative(sourceRoot, file.sourcePath)))
  ELSE pathNormalize(pathJoin(<<".">>, file.sourcePath))

\* The implicit module created at the source location of a file whose
\* targetPath differs from its sourcePath.
ProxyFile(file, absSourceId) ==
  [BlankFile EXCEPT
     !.type = file.type, !.sourcePath = file.sourcePath,
     !.servePath = stripLeadingSlash(absSourceId), !.absModuleId = absSourceId,
     !.dataString = Some(<<>>), !.deps = Some(<<>>), !.lazy = Some(TRUE),
     !.imported = "false", !.implicit = Some(TRUE)]

\* The source module of a file whose targetPath differs from its sourcePath:
\* the file known at the source path, or a new implicit one. The state and
\* the module's reference.
SourceFileOf(st, file, absSourcePath, absSourceId) ==
  LET known == getFile(st, absSourcePath) IN
  IF known # -1 THEN [st |-> st, ret |-> known]
  ELSE [st |-> addFile(Alloc(st, ProxyFile(file, absSourceId)),
                       absSourcePath, Len(st.heap) + 1).st,
        ret |-> Len(st.heap) + 1]

\* A variant in which the link to the new target module takes the place of
\* the links the source module had.
LinkedSourceOverwriting(sourceFile, relativeId) ==
  [sourceFile EXCEPT
     !.dataString = Some(<< Tok("module.link", relativeId) >>),
     !.data = Some(Utf8(<< Tok("module.link", relativeId) >>)),
     !.hash = Some(sha1(Utf8(<< Tok("module.link", relativeId) >>))),
     !.deps = Some(<< Dep(relativeId, ImportInfo(None, FALSE, FALSE, FALSE)) >>)]

\* The implicit source module once it links to the target module: its
\* dataString ends with the module.link call, data and hash follow it, and the
\* identifier is recorded in deps.
LinkedSource(sourceFile, relativeId) ==
  LET body == Append(Get(sourceFile.dataString), Tok("module.link", relativeId))
  IN [sourceFile EXCEPT
        !.dataString = Some(body),
        !.data = Some(Utf8(body)),
        !.hash = Some(sha1(Utf8(body))),
        !.deps = Some(SetDep(IF IsSome(sourceFile.deps)
                             THEN Get(sourceFile.deps) ELSE <<>>,
                             relativeId,
                             ImportInfo(None, FALSE, FALSE, FALSE)))]

\* A variant that links the source module to the target module whether or not
\* the source module was added explicitly.
LinkSourceAlways(s, relativeId) ==
  SetObj(s.st, s.ret, LinkedSource(getDataString(s.st.heap[s.ret]), relativeId))

\* A source module that was added explicitly is left as it is; s is the
\* result of SourceFileOf.
LinkSource(s, relativeId) ==
  IF s.st.heap[s.ret].implicit # Some(TRUE) THEN s.st
  ELSE SetObj(s.st, s.ret,
              LinkedSource(getDataString(s.st.heap[s.ret]), relativeId))

\* The branch of checkSourceAndTargetPaths for a targetPath that differs from
\* the sourcePath: the file moves to the target location and the source
\* module links to it.
RedirectToTarget(st, file, targetPath, absSourcePath, absSourceId, absTargetId) ==
  [st |-> LinkSource(SourceFileOf(st, file, absSourcePath, absSourceId),
                     getRelativeImportId(absSourceId, absTargetId)),
   file |-> [file EXCEPT !.absModuleId = absTargetId, !.sourcePath = targetPath]]

\* checkSourceAndTargetPaths from the normalized targetPath on.
checkTargetPath(st, file, targetPath) ==
  IF targetPath = file.sourcePath
  THEN [st |-> st, file |-> [file EXCEPT !.targetPath = Some(targetPath)]]
  ELSE RedirectToTarget(st, [file EXCEPT !.targetPath = Some(targetPath)],
                        targetPath,
                        pathJoin(sourceRoot, file.sourcePath),
                        getAbsModuleId(pathJoin(sourceRoot, file.sourcePath)),
                        getAbsModuleId(pathJoin(sourceRoot, targetPath)))

\* checkSourceAndTargetPaths from the normalized sourcePath on.
checkSourcePath(st, file) ==
  IF ~ IsSome(file.targetPath) THEN [st |-> st, file |-> file]
  ELSE checkTargetPath(st, file,
                       pathNormalize(pathJoin(<<".">>, Get(file.targetPath))))

\* checkSourceAndTargetPaths(file): the state and the file as the call leaves
\* them.
checkSourceAndTargetPaths(st, file0) ==
  checkSourcePath(st, [file0 EXCEPT !.sourcePath = getSourcePath(file0)])

\* Math.max of the two statuses, as alignImportedStatuses assigns it.
MaxStatus(a, b) ==
  IF importedStatusOrder(a) >= importedStatusOrder(b) THEN a ELSE b

\* A variant of checkProperty that hands a missing flag over and never finds
\* the two values different.
checkPropertyIgnoringDifference(oldV, newV) ==
  [old |-> IF IsSome(oldV) THEN oldV ELSE newV,
   new |-> IF IsSome(oldV) /\ ~ IsSome(newV) THEN oldV ELSE newV,
   differ |-> FALSE]

\* checkProperty(name) of combineFiles on one optional flag: the two values
\* after the hand-over of a missing one, and whether they differ (an Error).
checkProperty(oldV, newV) ==
  LET o == IF IsSome(oldV) THEN oldV ELSE newV
      n == IF IsSome(oldV) /\ ~ IsSome(newV) THEN oldV ELSE newV
  IN [old |-> o, new |-> n, differ |-> o # n]

\* A variant that joins the two bodies with nothing between them.
ConcatenatedWithoutSeparator(st, oldRef, newRef, old3, new3) ==
  LET combined == Get(old3.dataString) \o Get(new3.dataString)
      status == MaxStatus(old3.imported, new3.imported)
  IN [st EXCEPT
        !.heap[oldRef] =
           [old3 EXCEPT !.dataString = Some(combined),
                        !.data = Some(Utf8(combined)),
                        !.hash = Some(sha1(Utf8(combined))),
                        !.imported = status],
        !.heap[newRef] = [new3 EXCEPT !.imported = status]]

\* The end of combineFiles: the old file holds both bodies, and the two files
\* share the higher imported status.
Concatenated(st, oldRef, newRef, old3, new3) ==
  LET combined == Get(old3.dataString) \o << Text("\n\n") >>
                  \o Get(new3.dataString)
      status == MaxStatus(old3.imported, new3.imported)
  IN [st EXCEPT
        !.heap[oldRef] =
           [old3 EXCEPT !.dataString = Some(combined),
                        !.data = Some(Utf8(combined)),
                        !.hash = Some(sha1(Utf8(combined))),
                        !.imported = status],
        !.heap[newRef] = [new3 EXCEPT !.imported = status]]

\* combineFiles(oldFile, newFile) on two heap objects.
combineFiles(st, oldRef, newRef) ==
  LET old0 == st.heap[oldRef]
      new0 == st.heap[newRef]
      cl == checkProperty(old0.lazy, new0.lazy)
      old1 == [old0 EXCEPT !.lazy = cl.old]
      new1 == [new0 EXCEPT !.lazy = cl.new]
      cb == checkProperty(old1.bare, new1.bare)
      old2 == [old1 EXCEPT !.bare = cb.old]
      new2 == [new1 EXCEPT !.bare = cb.new]
  IN IF cl.differ
     THEN [st EXCEPT !.heap[oldRef] = old1, !.heap[newRef] = new1,
                     !.thrown = "Attempting to combine different files"]
     ELSE IF cb.differ
     THEN [st EXCEPT !.heap[oldRef] = old2, !.heap[newRef] = new2,
                     !.thrown = "Attempting to combine different files"]
     ELSE Concatenated(st, oldRef, newRef,
                       getDataString(old2), getDataString(new2))

\* The end of the forEach body of addInputFiles: an Error leaves the new file
\* with no reference from the scanner; otherwise it is listed under its real
\* path.
addListed(st, ref, absPath) ==
  IF st.thrown # ""
  THEN [st EXCEPT !.heap = Front(st.heap)]
  ELSE addFileByRealPath(st, ref, realPath(absPath))

\* The new file (the last object of the heap) goes through addFile; when a
\* file is already known at the path and neither is implicit, the new one is
\* combined into it.
addOrCombine(st, absPath) ==
  LET ref == Len(st.heap)
      a == addFile(st, absPath, ref)
  IN addListed(IF a.ret = -1
               THEN combineFiles(a.st, getFile(a.st, absPath), ref)
               ELSE a.st,
               ref, absPath)

\* The forEach body of addInputFiles after checkSourceAndTargetPaths, whose
\* result is c.
addChecked(c) ==
  LET absPath == pathJoin(sourceRoot, c.file.sourcePath) IN
  addOrCombine(
    Alloc(c.st,
          [c.file EXCEPT
             !.absPath = absPath,
             !.imported = "false",
             !.absModuleId = IF c.file.absModuleId # <<>> THEN c.file.absModuleId
                             ELSE getAbsModuleId(absPath)]),
    absPath)

\* The body of the forEach of addInputFiles for one file.
addInputFile(st, seed) == addChecked(checkSourceAndTargetPaths(st, seed))

RECURSIVE addInputFilesFrom(_, _)
\* files.forEach(...): an Error ends the loop.
addInputFilesFrom(st, files) ==
  IF files = <<>> \/ st.thrown # "" THEN st
  ELSE addInputFilesFrom(addInputFile(st, Head(files)), Tail(files))

\* --------------------------------------------------------------- resolver

\* this.resolver.statOrNull(absPath) as the constructor binds it: the disk
\* first, then this scanner's file set (a virtual file counts as a file).
statIsFile(st, absPath) == absPath \in DiskFiles \/ getFile(st, absPath) # -1

statIsDirectory(absPath) == absPath \in DiskDirs

\* The subset of a package.json the Resolver hands over in packageJsonMap.
ResolverPkg(pkgJsonPath) ==
  IF pkgJsonPath = <<"", "app", "node_modules", "@s", "a", "package.json">>
  THEN [pkgName |-> "@s/a", main |-> <<"index.js">>, private |-> FALSE,
        browser |-> BrowserOfScopedA, scripts |-> FALSE]
  ELSE [pkgName |-> "react", main |-> <<"index.js">>, private |-> FALSE,
        browser |-> <<>>, scripts |-> FALSE]

Missing == [status |-> "missing", path |-> <<>>, id |-> <<>>, packageJsonMap |-> <<>>]

\* The path a specifier names: a relative one against the parent's directory,
\* an absolute one against the source root, a bare one in nodeModulesPaths.
Candidate(id, absParentPath) ==
  IF id[1] \in {".", ".."} THEN pathJoin(pathDirname(absParentPath), id)
  ELSE IF id[1] = "" THEN pathJoin(sourceRoot, id)
  ELSE pathJoin(nodeModulesPaths[1], id)

\* The Resolution of a module found at path.
ResolvedAt(path, packageJsonMap) ==
  [status |-> "resolved", path |-> path, id |-> getAbsModuleId(path),
   packageJsonMap |-> packageJsonMap]

\* A directory is entered through the main module of its package.json.
ResolveMain(st, main, pkgJson) ==
  IF statIsFile(st, main)
  THEN ResolvedAt(main, << [path |-> pkgJson, pkg |-> ResolverPkg(pkgJson)] >>)
  ELSE Missing

ResolveCandidate(st, cand) ==
  IF statIsFile(st, cand) THEN ResolvedAt(cand, <<>>)
  ELSE IF statIsDirectory(cand) /\ statIsFile(st, Append(cand, "package.json"))
  THEN ResolveMain(st,
                   pathJoin(cand, ResolverPkg(Append(cand, "package.json")).main),
                   Append(cand, "package.json"))
  ELSE Missing

\* Resolver.resolve(id, absParentPath): node-style lookup of a relative
\* specifier against the parent's directory and of a bare one in
\* nodeModulesPaths; a directory is entered through its package.json main.
ResolverResolve(st, id, absParentPath) ==
  ResolveCandidate(st, Candidate(id, absParentPath))

\* ------------------------------------------------------- missing modules

\* ImportScanner.mergeMissing for one specifier: pathToIndex is taken from the
\* target list before the source list is walked.
RECURSIVE MergeInfoListFirstWins(_, _, _)
\* A variant in which an ImportInfo whose parentPath the target list holds
\* is dropped, so that the earlier entry stays.
MergeInfoListFirstWins(orig, list, source) ==
  IF source = <<>> THEN list
  ELSE LET info == Head(source)
           hits == {i \in DOMAIN orig : orig[i].parentPath = info.parentPath}
       IN IF IsSome(info.parentPath) /\ hits # {}
          THEN MergeInfoListFirstWins(orig, list, Tail(source))
          ELSE MergeInfoListFirstWins(orig, Append(list, info), Tail(source))

RECURSIVE MergeInfoList(_, _, _)
MergeInfoList(orig, list, source) ==
  IF source = <<>> THEN list
  ELSE LET info == Head(source)
           hits == {i \in DOMAIN orig : orig[i].parentPath = info.parentPath}
       IN IF IsSome(info.parentPath) /\ hits # {}
          THEN LET index == CHOOSE i \in hits : \A j \in hits : j <= i IN
               MergeInfoList(orig, [list EXCEPT ![index] = info], Tail(source))
          ELSE MergeInfoList(orig, Append(list, info), Tail(source))

\* ImportScanner.mergeMissing(target, {[id]: importInfoList}).
mergeMissing(target, id, importInfoList) ==
  LET orig == IF id \in DOMAIN target THEN target[id] ELSE <<>> IN
  Put(target, id, MergeInfoList(orig, orig, importInfoList))

RECURSIVE mergeMissingMap(_, _)
\* ImportScanner.mergeMissing(target, source) for a source of several
\* specifiers (a sequence of entries, in the order of its keys).
mergeMissingMap(target, source) ==
  IF source = <<>> THEN target
  ELSE mergeMissingMap(mergeMissing(target, Head(source).id, Head(source).list),
                       Tail(source))

\* A variant of onMissing that records the miss on the parent only.
onMissingOnlyOnParent(st, ref, id, forDynamicImport) ==
  LET parentFile == Obj(st, ref)
      absParentPath == pathJoin(sourceRoot, parentFile.sourcePath)
      own == IF HasDep(parentFile, id)
             THEN Get(parentFile.deps)[DepIndex(parentFile, id)].info
             ELSE ImportInfo(None, FALSE, FALSE, FALSE)
      info == ImportInfo(Some(absParentPath), own.dynamic, forDynamicImport,
                         own.possiblySpurious)
  IN SetObj(st, ref, [parentFile EXCEPT !.missingModules = Put(@, id, info)])

\* onMissing(parentFile, id, forDynamicImport) for a specifier that is not a
\* native module: the miss is recorded on the parent and in allMissingModules.
onMissing(st, ref, id, forDynamicImport) ==
  LET parentFile == Obj(st, ref)
      absParentPath == pathJoin(sourceRoot, parentFile.sourcePath)
      own == IF HasDep(parentFile, id)
             THEN Get(parentFile.deps)[DepIndex(parentFile, id)].info
             ELSE ImportInfo(None, FALSE, FALSE, FALSE)
      info == ImportInfo(Some(absParentPath), own.dynamic, forDynamicImport,
                         own.possiblySpurious)
      st1 == SetObj(st, ref,
               [parentFile EXCEPT !.missingModules = Put(@, id, info)])
  IN [st1 EXCEPT !.missing = mergeMissing(st1.missing, id, << info >>)]

\* ---------------------------------------------------------- reading files

\* The file name's extension, lower-cased, without the dot (pathExtname).
ExtOf(absPath) ==
  CASE Last(absPath) = "package.json" -> "json"
    [] OTHER -> "js"

\* The info object readFile builds from the bytes and the hash of the file.
FileInfo(absPath, data, hash) ==
  [BlankFile EXCEPT !.absPath = absPath, !.data = Some(data),
                    !.hash = Some(hash),
                    !.dataString = Some(Utf8ToString(data))]

\* A leading byte order mark is stripped, and data and hash follow the string.
StripBOM(info) ==
  LET str == Get(info.dataString) IN
  IF str # <<>> /\ str[1].kind = "BOM"
  THEN [info EXCEPT !.dataString = Some(Tail(str)),
                    !.data = Some(Utf8(Tail(str))),
                    !.hash = Some(sha1(Utf8(Tail(str))))]
  ELSE info

\* readFile(absPath): a fresh info object.
readFile(absPath) ==
  StripBOM(FileInfo(absPath, optimisticReadFile(absPath),
                    optimisticHashOrNull(absPath)))

\* The root properties of a package.json that start with an underscore are
\* deleted.
StripPrivate(jsonData) == [jsonData EXCEPT !.private = FALSE]

\* The info object of a package.json as readPackageJson returns it: the
\* CommonJS wrapping of jsonData in dataString, with data and hash following.
PackageJsonInfo(info, jsonData) ==
  LET body == jsonDataToCommonJS(jsonData) IN
  [info EXCEPT !.dataString = Some(body),
               !.data = Some(Utf8(body)),
               !.hash = Some(sha1(Utf8(body))),
               !.jsonData = Some(jsonData)]

\* readPackageJson on the info object readFile returned.
ParsePackageJson(info) ==
  PackageJsonInfo(info, StripPrivate(JSONparse(Get(info.dataString))))

\* readPackageJson(absPath): None when the file does not exist.
readPackageJson(absPath) ==
  IF absPath \notin DiskFiles THEN None
  ELSE Some(ParsePackageJson(readFile(absPath)))

\* readModule on the info object readFile returned: the handler of the
\* extension rewrites dataString.
HandleModule(ext, info) ==
  EncodeIfChanged(ApplyHandler(ext, info), Get(info.dataString))

\* readModule(absPath) for a file whose extension has a handler: None when the
\* file does not exist.
readModule(absPath) ==
  IF absPath \notin DiskFiles THEN None
  ELSE Some(HandleModule(ExtOf(absPath), readFile(absPath)))

\* useNodeStub: the module of a node_modules entry point on the server.
useNodeStub ==
  [BlankFile EXCEPT
     !.dataString = Some(<< Text("module.useNode();") >>),
     !.deps = Some(<<>>),
     !.data = Some(Utf8(<< Text("module.useNode();") >>)),
     !.hash = Some(sha1(Utf8(<< Text("module.useNode();") >>)))]

\* The object getInfoByRealPath returns for the first file known under a real
\* path, after getDataString has run on that file.
InfoOfFirstFile(st, ref, firstFile) ==
  [st |-> SetObj(st, ref, firstFile),
   info |-> Some([BlankFile EXCEPT !.data = firstFile.data,
                                   !.dataString = firstFile.dataString,
                                   !.hash = firstFile.hash])]

\* getInfoByRealPath(realPath): the state (getDataString may change the first
\* file) and the info object (None for null).
getInfoByRealPath(st, real) ==
  IF real \in DOMAIN st.rp /\ st.rp[real] # <<>>
  THEN InfoOfFirstFile(st, st.rp[real][1], getDataString(st.heap[st.rp[real][1]]))
  ELSE [st |-> st, info |-> None]

\* The module readDepFile loads when no file is known under the real path
\* (None for null).
LoadDepFile(absPath, absModuleId) ==
  IF shouldUseNode(absModuleId) THEN Some(useNodeStub)
  ELSE IF EndsWithPackageJson(absModuleId) THEN readPackageJson(absPath)
  ELSE readModule(absPath)

\* The end of readDepFile: the module read becomes a lazy dependency that has
\* not been imported yet, listed under its real path.
StoreDepFile(st, read, absPath, absModuleId, real) ==
  IF ~ IsSome(read) THEN [st |-> st, ret |-> -1]
  ELSE [st |-> addFileByRealPath(
                 Alloc(st, [Get(read) EXCEPT
                              !.type = "js",
                              !.sourcePath = pathRelative(sourceRoot, absPath),
                              !.absModuleId = absModuleId,
                              !.servePath = stripLeadingSlash(absModuleId),
                              !.lazy = Some(TRUE),
                              !.imported = "false"]),
                 Len(st.heap) + 1, real),
        ret |-> Len(st.heap) + 1]

\* A variant of readDepFile that asks shouldUseNode before it looks at what
\* getInfoByRealPath returned.
readDepFileFromStubFirst(g, absPath, absModuleId, real) ==
  StoreDepFile(g.st,
               IF shouldUseNode(absModuleId) THEN Some(useNodeStub)
               ELSE IF IsSome(g.info) THEN g.info
               ELSE LoadDepFile(absPath, absModuleId),
               absPath, absModuleId, real)

\* readDepFile after getInfoByRealPath, whose result is g.
readDepFileFrom(g, absPath, absModuleId, real) ==
  StoreDepFile(g.st,
               IF IsSome(g.info) THEN g.info
               ELSE LoadDepFile(absPath, absModuleId),
               absPath, absModuleId, real)

\* readDepFile once the module identifier and the real path are known.
readDepFileAt(st, absPath, absModuleId, real) ==
  IF absModuleId = <<>> THEN [st |-> st, ret |-> -1]
  ELSE readDepFileFrom(getInfoByRealPath(st, real), absPath, absModuleId, real)

\* readDepFile(absPath): the state and the reference of the new File object
\* (-1 for null).
readDepFile(st, absPath) ==
  readDepFileAt(st, absPath, getAbsModuleId(absPath), realPath(absPath))

\* --------------------------------------------------------------- scanning

setImportedStatus(file, status) ==
  IF importedStatusOrder(status) > importedStatusOrder(file.imported)
  THEN [file EXCEPT !.imported = status]
  ELSE file

\* StatusFor marking every scanned file static.
StatusForAlwaysStatic(forDynamicImport) == "static"

StatusFor(forDynamicImport) == IF forDynamicImport THEN "dynamic" ELSE "static"

\* The implicit package.json module addPkgJsonToOutput creates.
PkgJsonFile(pkgJsonPath, pkg, forDynamicImport) ==
  LET data == Utf8(jsonDataToCommonJS(pkg))
      absModuleId == getAbsModuleId(pkgJsonPath)
  IN [BlankFile EXCEPT
        !.type = "js", !.data = Some(data), !.jsonData = Some(pkg),
        !.deps = Some(<<>>),
        !.sourcePath = pathRelative(sourceRoot, pkgJsonPath),
        !.absModuleId = absModuleId,
        !.servePath = stripLeadingSlash(absModuleId),
        !.hash = Some(sha1(data)), !.lazy = Some(TRUE),
        !.imported = StatusFor(forDynamicImport), !.implicit = Some(TRUE)]

\* areAbsModuleIdsInSamePackage(path1, path2), both being results of
\* getAbsModuleId (empty when undefined): the package root of an identifier is
\* its prefix up to the component after the last node_modules component.
getPackageRoot(path) == SubSeq(path, 1, LastIndexOf(path, "node_modules") + 1)

areAbsModuleIdsInSamePackage(path1, path2) ==
  /\ path1 # <<>> /\ path2 # <<>>
  /\ getPackageRoot(path1) = getPackageRoot(path2)

\* deps[id] = deps[id] || {}.
EnsureDep(file, id) ==
  LET deps == IF IsSome(file.deps) THEN Get(file.deps) ELSE <<>> IN
  IF \E i \in DOMAIN deps : deps[i].id = id THEN [file EXCEPT !.deps = Some(deps)]
  ELSE [file EXCEPT
          !.deps = Some(Append(deps, Dep(id, ImportInfo(None, FALSE, FALSE, FALSE))))]

\* The stub resolvePkgJsonBrowserAliases adds for an aliased module that is
\* not in the file set.
AliasStub(source, sourceAbsModuleId, alias) ==
  [BlankFile EXCEPT
     !.alias = Some(alias), !.data = Some(Utf8(<<>>)), !.dataString = Some(<<>>),
     !.sourcePath = pathRelative(sourceRoot, source.path),
     !.absModuleId = sourceAbsModuleId,
     !.servePath = stripLeadingSlash(sourceAbsModuleId),
     !.lazy = Some(TRUE), !.imported = "false", !.implicit = Some(TRUE)]

\* if (file) file.alias = alias; else this.addFile(source.path, {alias, ...}).
SetAlias(st, fileRef, source, sourceAbsModuleId, alias) ==
  IF fileRef # -1
  THEN SetObj(st, fileRef, [st.heap[fileRef] EXCEPT !.alias = Some(alias)])
  ELSE addFile(Alloc(st, AliasStub(source, sourceAbsModuleId, alias)),
               source.path, Len(st.heap) + 1).st

\* The alias for a string target that the Resolver has resolved to target.
AliasToTarget(st, fileRef, source, sourceAbsModuleId, target) ==
  IF target.status = "missing" THEN st
  ELSE IF target.id = source.id THEN st
  ELSE SetAlias(st, fileRef, source, sourceAbsModuleId,
                [absModuleId |-> getAbsModuleId(target.path),
                 path |-> target.path])

\* The body of the forEach of resolvePkgJsonBrowserAliases once the package
\* has been found to have authority over the source module.
AliasTarget(st, pkgRef, entry, fileRef, source, sourceAbsModuleId) ==
  IF entry.target = <<>>
  THEN SetAlias(st, fileRef, source, sourceAbsModuleId,
                [absModuleId |-> <<>>, path |-> <<>>])
  ELSE AliasToTarget(
         SetObj(st, pkgRef, EnsureDep(st.heap[pkgRef], entry.target)),
         fileRef, source, sourceAbsModuleId,
         ResolverResolve(st, entry.target,
                         pathJoin(sourceRoot, st.heap[pkgRef].sourcePath)))

\* The body of the forEach from the resolved source module on.
AliasSource(st, pkgRef, entry, source) ==
  IF source.status = "missing" THEN st
  ELSE IF getFile(st, source.path) # -1
          /\ IsSome(st.heap[getFile(st, source.path)].alias)
  THEN st
  ELSE IF ~ areAbsModuleIdsInSamePackage(st.heap[pkgRef].absModuleId,
                                         getAbsModuleId(source.path))
  THEN st
  ELSE AliasTarget(st, pkgRef, entry, getFile(st, source.path), source,
                   getAbsModuleId(source.path))

\* The body of the forEach for one key of the browser field.
BrowserAlias(st, pkgRef, entry) ==
  AliasSource(SetObj(st, pkgRef, EnsureDep(st.heap[pkgRef], entry.source)),
              pkgRef, entry,
              ResolverResolve(st, entry.source,
                              pathJoin(sourceRoot, st.heap[pkgRef].sourcePath)))

RECURSIVE BrowserAliases(_, _, _)
\* Object.keys(browser).forEach of resolvePkgJsonBrowserAliases.
BrowserAliases(st, pkgRef, browser) ==
  IF browser = <<>> THEN st
  ELSE BrowserAliases(BrowserAlias(st, pkgRef, Head(browser)), pkgRef,
                      Tail(browser))

\* resolvePkgJsonBrowserAliases(pkgFile, forDynamicImport): nothing off the
\* web, nothing for a package.json without a browser object.
resolvePkgJsonBrowserAliases(st, pkgRef) ==
  IF ~ isWeb THEN st
  ELSE BrowserAliases(st, pkgRef, Get(st.heap[pkgRef].jsonData).browser)

\* A variant of addPkgJsonToOutput that leaves a package.json module of the
\* file set as it is.
addPkgJsonToOutputKeepingStatus(st, pkgJsonPath, pkg, forDynamicImport) ==
  LET known == getFile(st, pkgJsonPath) IN
  IF known # -1 THEN [st |-> st, ret |-> known]
  ELSE [st |-> resolvePkgJsonBrowserAliases(
                 addFile(Alloc(st, PkgJsonFile(pkgJsonPath, pkg, forDynamicImport)),
                         pkgJsonPath, Len(st.heap) + 1).st,
                 Len(st.heap) + 1),
        ret |-> Len(st.heap) + 1]

\* addPkgJsonToOutput(pkgJsonPath, pkg, forDynamicImport): the state and the
\* reference of the package.json module.
addPkgJsonToOutput(st, pkgJsonPath, pkg, forDynamicImport) ==
  LET known == getFile(st, pkgJsonPath) IN
  IF known # -1
  THEN [st |-> SetObj(st, known,
                 setImportedStatus(st.heap[known], StatusFor(forDynamicImport))),
        ret |-> known]
  ELSE [st |-> resolvePkgJsonBrowserAliases(
                 addFile(Alloc(st, PkgJsonFile(pkgJsonPath, pkg, forDynamicImport)),
                         pkgJsonPath, Len(st.heap) + 1).st,
                 Len(st.heap) + 1),
        ret |-> Len(st.heap) + 1]

\* One round of the each(resolved.packageJsonMap, ...) loop of resolve after
\* addPkgJsonToOutput, whose result is a: the package.json module is recorded
\* as a helper of the import, unless the parent has no module identifier.
AddHelper(a, ref, id, forDynamicImport) ==
  LET parentFile == Obj(a.st, ref)
      relativeId == getRelativeImportId(parentFile.absModuleId,
                                        a.st.heap[a.ret].absModuleId)
      k == DepIndex(parentFile, id)
  IN IF parentFile.absModuleId = <<>> THEN a.st
     ELSE SetObj(a.st, ref,
            [parentFile EXCEPT
               !.deps = Some([Get(parentFile.deps) EXCEPT
                  ![k].info.helpers = Put(@, relativeId, forDynamicImport)])])

RECURSIVE AddHelpers(_, _, _, _, _)
\* The each(resolved.packageJsonMap, ...) loop of resolve.
AddHelpers(st, ref, id, pkgs, forDynamicImport) ==
  IF pkgs = <<>> THEN st
  ELSE AddHelpers(
         AddHelper(addPkgJsonToOutput(st, Head(pkgs).path, Head(pkgs).pkg,
                                      forDynamicImport),
                   ref, id, forDynamicImport),
         ref, id, Tail(pkgs), forDynamicImport)

\* The end of resolve: a file with an alias is marked as imported and the
\* alias is returned in its place.
ResolveAlias(st, path, forDynamicImport) ==
  LET fileRef == getFile(st, path) IN
  IF fileRef # -1 /\ IsSome(st.heap[fileRef].alias)
  THEN [st |-> SetObj(st, fileRef,
                 setImportedStatus(st.heap[fileRef], StatusFor(forDynamicImport))),
        path |-> Get(st.heap[fileRef].alias).path]
  ELSE [st |-> st, path |-> path]

\* resolve on the Resolution the Resolver returned.
resolveWith(st, ref, id, resolved, forDynamicImport) ==
  IF resolved.status = "missing"
  THEN [st |-> onMissing(st, ref, id, forDynamicImport), path |-> <<>>]
  ELSE ResolveAlias(AddHelpers(st, ref, id, resolved.packageJsonMap,
                               forDynamicImport),
                    resolved.path, forDynamicImport)

\* resolve(parentFile, id, forDynamicImport): the state and the path to load
\* (empty when there is none: a miss, or an alias without a path).
resolve(st, ref, id, forDynamicImport) ==
  resolveWith(st, ref, id,
              ResolverResolve(st, id, pathJoin(sourceRoot, Obj(st, ref).sourcePath)),
              forDynamicImport)

\* Object.assign(depFile, file) with the package.json read from disk (nothing
\* when it cannot be read).
UpgradeWith(st, depRef, read) ==
  IF ~ IsSome(read) THEN st
  ELSE SetObj(st, depRef,
         [st.heap[depRef] EXCEPT !.implicit = Some(FALSE),
                                 !.absPath = Get(read).absPath,
                                 !.data = Get(read).data,
                                 !.hash = Get(read).hash,
                                 !.dataString = Get(read).dataString,
                                 !.jsonData = Get(read).jsonData])

\* The upgrade of an implicit package.json stub to the module read from disk.
UpgradePkgJson(st, depRef, absImportedPath) ==
  LET depFile == st.heap[depRef] IN
  IF IsSome(depFile.jsonData) /\ EndsWithPackageJson(depFile.absModuleId) /\
     depFile.implicit = Some(TRUE)
  THEN UpgradeWith(st, depRef, readPackageJson(absImportedPath))
  ELSE st

Diagnostic(kind, file) == [kind |-> kind, file |-> file.sourcePath]

\* buildmessage.error(e.message, {file, line, column}) for a ParseError.
ParseDiagnostic(file) ==
  [kind |-> "parse", file |-> file.sourcePath,
   line |-> ParseErrorLoc(Get(file.dataString)).line,
   column |-> ParseErrorLoc(Get(file.dataString)).column]

RECURSIVE scanFile(_, _, _)
RECURSIVE scanDeps(_, _, _, _)

\* A variant that adds the dependency read from disk to the file set and does
\* not scan it.
scanReadWithoutScan(r, absImportedPath, dynamic) ==
  IF r.ret = -1 THEN r.st
  ELSE addFile(r.st, absImportedPath, r.ret).st

\* The dependency read from disk is added to the file set and scanned; r is
\* the result of readDepFile.
scanRead(r, absImportedPath, dynamic) ==
  IF r.ret = -1 THEN r.st
  ELSE scanFile(addFile(r.st, absImportedPath, r.ret).st, r.ret, dynamic)

\* The body of the each(file.deps, ...) loop of scanFile from the resolved
\* path on: a file of the file set is scanned as it is (a package.json stub
\* is upgraded first), any other is read from disk.
scanImported(st, absImportedPath, dynamic) ==
  LET depRef == getFile(st, absImportedPath) IN
  IF absImportedPath = <<>> THEN st
  ELSE IF depRef # -1 /\ st.heap[depRef].fake
  THEN [st EXCEPT !.thrown = "AssertionError"]
  ELSE IF depRef # -1
  THEN scanFile(UpgradePkgJson(st, depRef, absImportedPath), depRef, dynamic)
  ELSE scanRead(readDepFile(st, absImportedPath), absImportedPath, dynamic)

\* The same from the result r of resolve on.
scanResolved(r, dynamic) == scanImported(r.st, r.path, dynamic)

\* The body of the each(file.deps, ...) loop of scanFile for one dependency.
scanDep(st, ref, id, dynamic) ==
  scanResolved(resolve(st, ref, id, dynamic), dynamic)

\* The each(file.deps, ...) loop of scanFile, from the k-th dependency on.
scanDeps(st, ref, k, forDynamicImport) ==
  LET deps == Get(Obj(st, ref).deps) IN
  IF k > Len(deps) \/ st.thrown # "" THEN st
  ELSE scanDeps(
         scanDep(st, ref, deps[k].id,
                 isWebBrowser /\ (forDynamicImport \/ deps[k].info.parentWasDynamic
                                  \/ deps[k].info.dynamic)),
         ref, k + 1, forDynamicImport)

\* A variant in which the ParseError is thrown on to the caller of the scan.
scanParsedThrowing(st, ref, f2) ==
  IF HasParseError(Get(f2.dataString))
  THEN [SetObj(st, ref, f2) EXCEPT !.thrown = "ParseError"]
  ELSE SetObj(st, ref, [f2 EXCEPT !.deps = Some(DepsOfBody(Get(f2.dataString)))])

\* file.deps = file.deps || findImportedModuleIdentifiers(file), on the file f2
\* getDataString has run on: a parse error is reported and leaves deps unset.
scanParsed(st, ref, f2) ==
  IF HasParseError(Get(f2.dataString))
  THEN [SetObj(st, ref, f2)
          EXCEPT !.msgs = Append(st.msgs, ParseDiagnostic(f2))]
  ELSE SetObj(st, ref, [f2 EXCEPT !.deps = Some(DepsOfBody(Get(f2.dataString)))])

\* The dependencies are walked unless the parse error has ended the scan.
scanWithDeps(st, ref, forDynamicImport) ==
  IF IsSome(Obj(st, ref).deps) THEN scanDeps(st, ref, 1, forDynamicImport)
  ELSE st

\* A variant in which reported pending errors do not end the scan of the file.
scanMarkedWalkingDeps(st, ref, f1, forDynamicImport) ==
  scanWithDeps(
    IF IsSome(f1.deps) THEN SetObj(st, ref, f1)
    ELSE scanParsed(
           IF f1.pendingErrors > 0
           THEN [st EXCEPT !.msgs = Append(st.msgs, Diagnostic("pending", f1))]
           ELSE st,
           ref, getDataString([f1 EXCEPT !.hasErrors = f1.pendingErrors > 0])),
    ref, forDynamicImport)

\* scanFile after setImportedStatus, which has left the file as f1: pending
\* errors of the file are reported and end the scan.
scanMarked(st, ref, f1, forDynamicImport) ==
  IF f1.pendingErrors > 0
  THEN [SetObj(st, ref, [f1 EXCEPT !.hasErrors = TRUE])
          EXCEPT !.msgs = Append(st.msgs, Diagnostic("pending", f1))]
  ELSE scanWithDeps(IF IsSome(f1.deps) THEN SetObj(st, ref, f1)
                    ELSE scanParsed(st, ref, getDataString(f1)),
                    ref, forDynamicImport)

\* The call of scanFile on the file ref, which setImportedStatus leaves as f1,
\* has passed the two early returns.
Visited(st, ref, f1) ==
  [st EXCEPT !.visits = Append(@, [ref |-> ref, from |-> Obj(st, ref).imported,
                                   to |-> f1.imported])]

\* scanFile from setImportedStatus on.
scanVisited(st, ref, f1, forDynamicImport) ==
  scanMarked(Visited(st, ref, f1), ref, f1, forDynamicImport)

\* scanFile returning early for a static file only when it has no pending
\* errors to report.
scanFileReportingAgain(st, ref, forDynamicImport) ==
  LET file == Obj(st, ref) IN
  IF file.imported = "static" /\ file.pendingErrors = 0 THEN st
  ELSE IF forDynamicImport /\ file.imported = "dynamic" THEN st
  ELSE scanVisited(st, ref, setImportedStatus(file, StatusFor(forDynamicImport)),
                   forDynamicImport)

\* scanFile(file, forDynamicImport).
scanFile(st, ref, forDynamicImport) ==
  LET file == Obj(st, ref) IN
  IF file.imported = "static" THEN st
  ELSE IF forDynamicImport /\ file.imported = "dynamic" THEN st
  ELSE scanVisited(st, ref, setImportedStatus(file, StatusFor(forDynamicImport)),
                   forDynamicImport)

RECURSIVE scanEager(_, _, _)
\* this.outputFiles.forEach of scanImports over the n files present when the
\* call starts (files pushed during the loop are not visited by forEach).
scanEager(st, i, n) ==
  IF i > n \/ st.thrown # "" THEN st
  ELSE scanEager(IF st.heap[st.out[i]].lazy # Some(TRUE)
                 THEN scanFile(st, st.out[i], FALSE) ELSE st,
                 i + 1, n)

scanImports(st) == scanEager(st, 1, Len(st.out))

\* The synthetic parent scanMissingModules walks for one specifier.
FakeParent(id, info) ==
  [BlankFile EXCEPT !.sourcePath = <<"fake.js">>, !.fake = TRUE,
                    !.deps = Some(<< Dep(id, info) >>)]

\* scanFakeParent registering the synthetic parent in the file set, as a
\* parent that went through addFile without the fake test would be.
scanFakeParentStored(st, id, info, forDynamicImport) ==
  LET st1 == Alloc(st, FakeParent(id, info))
      ref == Len(st1.heap)
      st2 == [st1 EXCEPT
                !.out = Append(@, ref),
                !.idx = Put(@, toLowerCase(pathJoin(sourceRoot, <<"fake.js">>)),
                            Len(st1.out) + 1)]
  IN scanFile(st2, ref, forDynamicImport)

\* scanFile on a synthetic parent.
scanFakeParent(st, id, info, forDynamicImport) ==
  [scanFile([st EXCEPT !.fakeFile = Some(FakeParent(id, info))], 0,
            forDynamicImport)
     EXCEPT !.fakeFile = None]

IsDynamicInfo(info) == info.parentWasDynamic \/ info.dynamic

\* The first ImportInfo of each kind in a list (missingModules[id].some(...)).
FirstInfo(list, dyn) ==
  LET hits == {i \in DOMAIN list : IsDynamicInfo(list[i]) = dyn} IN
  IF hits = {} THEN None
  ELSE Some(list[CHOOSE i \in hits : \A j \in hits : i <= j])

\* One scan of scanMissingModules: a synthetic parent importing id is scanned
\* when the list holds an ImportInfo of the kind (None when it holds none).
scanRepresentative(st, id, info, forDynamicImport) ==
  IF IsSome(info) /\ st.thrown = ""
  THEN scanFakeParent(st, id, Get(info), forDynamicImport)
  ELSE st

RECURSIVE scanMissingEach(_, _)
\* Object.keys(missingModules).forEach of scanMissingModules: at most one
\* static and one dynamic scan for each specifier.
scanMissingEach(st, missingModules) ==
  IF missingModules = <<>> \/ st.thrown # "" THEN st
  ELSE scanMissingEach(
         scanRepresentative(
           scanRepresentative(st, Head(missingModules).id,
                              FirstInfo(Head(missingModules).list, FALSE), FALSE),
           Head(missingModules).id,
           FirstInfo(Head(missingModules).list, TRUE), TRUE),
         Tail(missingModules))

InputIds(missingModules) == {missingModules[i].id : i \in DOMAIN missingModules}

InputList(missingModules, id) ==
  missingModules[CHOOSE i \in DOMAIN missingModules : missingModules[i].id = id].list

RECURSIVE MergeNewlyMissingIntoKnown(_, _, _)
\* A variant that merges every miss of this call into the previous
\* allMissingModules, also under a specifier that was known before.
MergeNewlyMissingIntoKnown(prev, found, ids) ==
  IF ids = {} THEN prev
  ELSE LET id == CHOOSE x \in ids : TRUE IN
       MergeNewlyMissingIntoKnown(mergeMissing(prev, id, found[id]),
                                  found, ids \ {id})

\* A variant of the last loop of scanMissingModules that puts the previous
\* allMissingModules back as it was, without the misses of this call.
MergeNewlyMissingForgetting(prev, found, ids) == prev

RECURSIVE MergeNewlyMissing(_, _, _)
\* The last loop of scanMissingModules: the misses of this call that were not
\* known before are merged into the previous allMissingModules.
MergeNewlyMissing(prev, found, ids) ==
  IF ids = {} THEN prev
  ELSE LET id == CHOOSE x \in ids : TRUE IN
       MergeNewlyMissing(IF id \in DOMAIN prev THEN prev
                         ELSE mergeMissing(prev, id, found[id]),
                         found, ids \ {id})

\* A variant that returns every specifier the walk found unresolved as newly
\* missing, also the ones that were recorded before the call.
scanMissingResultKeepingKnown(previousAllMissingModules, walked, missingModules) ==
  [st |-> [walked EXCEPT !.missing =
             MergeNewlyMissing(previousAllMissingModules, walked.missing,
                               DOMAIN walked.missing)],
   newlyAdded |-> [id \in InputIds(missingModules) \ DOMAIN walked.missing
                     |-> InputList(missingModules, id)],
   newlyMissing |-> walked.missing]

\* A variant that reports every specifier of the input map as newly added,
\* whether or not the walk recorded it as missing again.
scanMissingResultAddingAll(previousAllMissingModules, walked, missingModules) ==
  [st |-> [walked EXCEPT !.missing =
             MergeNewlyMissing(previousAllMissingModules, walked.missing,
                               DOMAIN walked.missing)],
   newlyAdded |-> [id \in InputIds(missingModules)
                     |-> InputList(missingModules, id)],
   newlyMissing |-> [id \in DOMAIN walked.missing
                            \ DOMAIN previousAllMissingModules
                       |-> walked.missing[id]]]

\* The end of scanMissingModules, after the scans have left the state walked
\* with the misses of this call in allMissingModules: the previous map is put
\* back, extended by the misses it did not know.
scanMissingResult(previousAllMissingModules, walked, missingModules) ==
  LET found == walked.missing
      added == InputIds(missingModules) \ DOMAIN found
      fresh == DOMAIN found \ DOMAIN previousAllMissingModules
  IN IF walked.thrown # ""   \* no finally: the temporary map stays in place
     THEN [st |-> walked, newlyAdded |-> EmptyMap, newlyMissing |-> EmptyMap]
     ELSE [st |-> [walked EXCEPT !.missing =
                     MergeNewlyMissing(previousAllMissingModules, found,
                                       DOMAIN found)],
           newlyAdded |-> [id \in added |-> InputList(missingModules, id)],
           newlyMissing |-> [id \in fresh |-> found[id]]]

\* A variant that has no early exit for an empty map and does not merge the
\* previous allMissingModules back: the scanner is left with the temporary map.
scanMissingModulesForgetting(st, missingModules) ==
  scanMissingResult(EmptyMap,
                    scanMissingEach([st EXCEPT !.missing = EmptyMap], missingModules),
                    missingModules)

\* scanMissingModules(missingModules): the state and the returned maps.
scanMissingModules(st, missingModules) ==
  IF missingModules = <<>>
  THEN [st |-> st, newlyAdded |-> EmptyMap, newlyMissing |-> EmptyMap]
  ELSE scanMissingResult(
         st.missing,
         scanMissingEach([st EXCEPT !.missing = EmptyMap], missingModules),
         missingModules)

\* alignImportedStatuses(...files): the maximum status of the group.
GroupStatus(st, files) ==
  LET top == CHOOSE i \in DOMAIN files :
               \A j \in DOMAIN files :
                 importedStatusOrder(st.heap[files[j]].imported)
                   <= importedStatusOrder(st.heap[files[i]].imported)
  IN st.heap[files[top]].imported

\* A variant that always takes the first file of the group as the container.
ContainerAlwaysFirst(st, files) == files[1]

\* The container of a group: the first file inside node_modules, else the first.
Container(st, files) ==
  LET hits == {i \in DOMAIN files :
                 StartsWithNodeModules(st.heap[files[i]].absModuleId)}
  IN IF hits = {} THEN files[1]
     ELSE files[CHOOSE i \in hits : \A j \in hits : i <= j]

AliasTo(file, absModuleId) ==
  [file EXCEPT !.alias =
     Some([absModuleId |-> absModuleId,
           path |-> IF IsSome(file.alias) THEN Get(file.alias).path ELSE <<>>])]

\* mergeFilesWithSameRealPath(): every object is listed under one real path,
\* so the groups can be handled independently of one another.
mergeFilesWithSameRealPath(st) ==
  LET GroupOf(ref) ==
        {real \in DOMAIN st.rp :
           Len(st.rp[real]) >= 2 /\ IndexOf(st.rp[real], ref) > 0}
  IN [st EXCEPT !.heap =
        [ref \in DOMAIN st.heap |->
           IF GroupOf(ref) = {} THEN st.heap[ref]
           ELSE LET files == st.rp[CHOOSE real \in GroupOf(ref) : TRUE]
                    container == Container(st, files)
                    aligned == [st.heap[ref] EXCEPT
                                  !.imported = GroupStatus(st, files)]
                IN IF ref = container THEN aligned
                   ELSE AliasTo(aligned, st.heap[container].absModuleId)]]

\* IsOutput without the test that a lazy file has been imported.
IsOutputIgnoringLazy(file) ==
  file.absModuleId # <<>> /\ ~ file.fake /\ ~ file.hasErrors

\* The filter of getOutputFiles on one file.
IsOutput(file) ==
  file.absModuleId # <<>> /\ ~ file.fake /\ ~ file.hasErrors /\
  (file.lazy # Some(TRUE) \/ file.imported # "false")

RECURSIVE Filter(_, _)
Filter(st, refs) ==
  IF refs = <<>> THEN <<>>
  ELSE (IF IsOutput(st.heap[Head(refs)]) THEN << Head(refs) >> ELSE <<>>)
       \o Filter(st, Tail(refs))

\* getOutputFiles(): the state and the returned array (of references).
getOutputFiles(st) ==
  LET merged == mergeFilesWithSameRealPath(st) IN
  [st |-> merged, ret |-> Filter(merged, merged.out)]

\* ------------------------------------------------------------------ inputs

\* A file as a compiler plugin hands it to addInputFiles: data and its hash,
\* no dataString.
Seed(sourcePath, body, lazy) ==
  [BlankFile EXCEPT !.sourcePath = sourcePath, !.type = "js",
                    !.data = Some(Utf8(body)), !.hash = Some(sha1(Utf8(body))),
                    !.lazy = Some(lazy), !.bare = Some(FALSE)]

MainBody ==
  << Tok("module.link", <<".", "util.js">>), Tok("import()", <<".", "lazy.js">>),
     Tok("module.link", <<"react">>), Tok("module.link", <<".", "a.js">>),
     Tok("module.link", <<"x.js">>) >>

\* An entry module that imports from a client and a server directory of the
\* application and from such directories inside node_modules directories.
EntryBody ==
  << Tok("module.link", <<".", "client", "d.js">>),
     Tok("module.link", <<".", "server", "s.js">>),
     Tok("module.link", <<"lib2", "client", "n.js">>),
     Tok("module.link", <<".", "imports", "node_modules", "pkg", "server", "y.js">>) >>

\* A module that imports the package @s/a, a module of the package @s/b and
\* a module of the package pb.
AppBody ==
  << Tok("module.link", <<"@s", "a">>), Tok("module.link", <<"@s", "b", "x.js">>),
     Tok("module.link", <<"pb", "y.js">>) >>

\* The main module of a package: it imports a module of the package, an npm
\* package and a module of node_modules that is a link into the package.
PkBody ==
  << Tok("import", <<".", "util.js">>), Tok("import", <<"@s", "a">>),
     Tok("import", <<"x.js">>) >>

Seeds ==
  << Seed(<<"main.js">>, MainBody, FALSE),
     Seed(<<"Main.js">>, << Text("m2") >>, TRUE),
     [Seed(<<"a.js">>, << Text("#!"), Text("b") >>, TRUE)
        EXCEPT !.targetPath = Some(<<"b.js">>)],
     Seed(<<"a.js">>, << Text("a") >>, TRUE),
     Seed(<<"client", "c.js">>, << Text("syntax_error") >>, FALSE),
     [Seed(<<"err.js">>, << Text("e"), Tok("import", <<".", "lazy.js">>) >>, FALSE)
        EXCEPT !.pendingErrors = 1],
     [Seed(<<"own.js">>, << Text("o") >>, FALSE) EXCEPT !.absModuleId = <<"own.js">>],
     Seed(<<"lib", "x.js">>, << Tok("module.link", <<".", "..", "util.js">>) >>, TRUE),
     Seed(<<"entry.js">>, EntryBody, FALSE),
     Seed(<<"server", "boot.js">>, << Text("boot") >>, FALSE),
     Seed(<<"app.js">>, AppBody, FALSE),
     [Seed(<<"a.js">>, << Text("c") >>, TRUE)
        EXCEPT !.targetPath = Some(<<"c.js">>)],
     Seed(<<"pk.js">>, PkBody, FALSE) >>

\* The ImportInfo the app's main module leaves for a bare specifier.
MissInfo(dynamic, parentWasDynamic) ==
  ImportInfo(Some(<<"", "app", "main.js">>), dynamic, parentWasDynamic, FALSE)

MissingEntry(id, list) == [id |-> id, list |-> list]

\* The maps handed to scanMissingModules.
MissingInputs ==
  { << >>,
    << MissingEntry(<<"react">>, << MissInfo(FALSE, FALSE) >>) >>,
    << MissingEntry(<<"react">>, << MissInfo(TRUE, FALSE) >>) >>,
    << MissingEntry(<<"react">>, << MissInfo(TRUE, FALSE), MissInfo(FALSE, FALSE) >>) >>,
    << MissingEntry(<<"react">>, << MissInfo(FALSE, FALSE) >>),
       MissingEntry(<<"vue">>, << MissInfo(FALSE, FALSE) >>) >>,
    << MissingEntry(<<"", "peer.js">>, << MissInfo(FALSE, FALSE) >>) >>,
    << MissingEntry(<<"react", "package.json">>, << MissInfo(FALSE, FALSE) >>) >>,
    << MissingEntry(<<"", "lazy.js">>, << MissInfo(TRUE, FALSE) >>),
       MissingEntry(<<"", "deep.js">>, << MissInfo(FALSE, FALSE) >>) >> }

\* The file lists of the build of the package pkg.
PackageProject == { <<13>>, <<8>> }

\* The builds explored: each is the set of file lists (of indexes of Seeds) its
\* compiler plugins hand to addInputFiles.
Projects ==
  { { <<1>>, <<2>>, <<1, 3>>, <<4>>, <<3, 12>> },
    { <<5>>, <<6>>, <<7>> },
    { <<1>>, <<8>> },
    { <<9>>, <<10>>, <<5>>, <<1, 10>> },
    { <<11>> },
    PackageProject }

\* The File objects of one list.
InputFiles(list) == [k \in DOMAIN list |-> Seeds[list[k]]]

Archs == { <<"web", "browser">>, <<"web", "cordova">>, <<"os">> }

Names == { "", "pkg" }

\* --------------------------------------------------------- specification

\* The record of a call: the method, its argument (the file list of
\* addInputFiles as indexes of Seeds, the map of scanMissingModules), and what
\* it returned or threw; visits is the log of the walk of a scan.
Called(op) ==
  [op |-> op, input |-> <<>>, thrown |-> "", output |-> <<>>,
   newlyAdded |-> EmptyMap, newlyMissing |-> EmptyMap, scanned |-> FALSE,
   visits |-> <<>>,
   repeated |-> FALSE]

\* The processes that scan with one cacheDir.
Processes == {1, 2}

\* The handler has not been called yet.
NotHandled == [by |-> 0, hash |-> None, code |-> <<>>, hit |-> FALSE]

\* No resolve has been made yet.
NotResolved == [by |-> "none", id |-> <<>>, found |-> FALSE, own |-> FALSE]

\* stage records the order of the calls made so far: "input" while only
\* addInputFiles has been called, "scanned" once scanImports has followed and
\* nothing but scanImports since, "mixed" after any other order of calls.
Init ==
  /\ bundleArch \in Archs
  /\ name \in Names
  /\ heap = <<>>
  /\ outputFiles = <<>>
  /\ absPathToOutputIndex = EmptyMap
  /\ realPathToFiles = EmptyMap
  /\ allMissingModules = EmptyMap
  /\ messages = <<>>
  /\ installed = FALSE
  /\ project \in Projects
  /\ (name # "") <=> (project = PackageProject)
  /\ last = Called("new")
  /\ calls = 0
  /\ stage = "input"
  /\ resolver = [statOrNull |-> "none"]
  /\ scanners = EmptyMap
  /\ lastResolve = NotResolved
  /\ cacheFiles = EmptyMap
  /\ nextTicks = [p \in Processes |-> <<>>]
  /\ handled = NotHandled

\* The scanner's fields after an operation that ended in state st.
Store(st) ==
  /\ heap' = st.heap
  /\ outputFiles' = st.out
  /\ absPathToOutputIndex' = st.idx
  /\ realPathToFiles' = st.rp
  /\ allMissingModules' = st.missing
  /\ messages' = st.msgs

AddInputFiles ==
  \E files \in project :
    /\ calls < MaxCalls
    /\ \E st \in {addInputFilesFrom(ScannerState, InputFiles(files))} :
         /\ Store(st)
         /\ last' = [Called("addInputFiles") EXCEPT !.input = files,
                                                    !.thrown = st.thrown]
    /\ calls' = calls + 1
    /\ stage' = IF stage = "input" THEN "input" ELSE "mixed"
    /\ UNCHANGED <<bundleArch, name, installed, project>>
    /\ UNCHANGED <<sharedVars, cacheVars>>

ScanImports ==
  /\ \E st \in {scanImports(ScannerState)} :
       /\ Store(st)
       /\ last' = [Called("scanImports") EXCEPT !.thrown = st.thrown,
                                                 !.visits = st.visits,
                                                 !.scanned = TRUE,
                                                 !.repeated = last.scanned]
  /\ stage' = IF stage \in {"input", "scanned"} THEN "scanned" ELSE "mixed"
  /\ UNCHANGED <<bundleArch, name, installed, project, calls>>
  /\ UNCHANGED <<sharedVars, cacheVars>>

ScanMissingModules ==
  \E m \in MissingInputs :
    /\ m # <<>> => calls < MaxCalls
    /\ \E r \in {scanMissingModules(ScannerState, m)} :
         /\ Store(r.st)
         /\ last' = [Called("scanMissingModules") EXCEPT
                       !.input = m,
                       !.thrown = r.st.thrown, !.newlyAdded = r.newlyAdded,
                       !.visits = r.st.visits,
                       !.newlyMissing = r.newlyMissing, !.scanned = last.scanned]
    /\ calls' = IF m # <<>> THEN calls + 1 ELSE calls
    /\ stage' = IF m # <<>> THEN "mixed" ELSE stage
    /\ UNCHANGED <<bundleArch, name, installed, project>>
    /\ UNCHANGED <<sharedVars, cacheVars>>

GetOutputFiles ==
  /\ \E r \in {getOutputFiles(ScannerState)} :
       /\ Store(r.st)
       /\ last' = [Called("getOutputFiles") EXCEPT !.output = r.ret,
                                                    !.scanned = last.scanned]
  /\ stage' = "mixed"
  /\ UNCHANGED <<bundleArch, name, installed, project, calls>>
  /\ UNCHANGED <<sharedVars, cacheVars>>

\* The surrounding install loop installs the missing npm package.
Install ==
  /\ ~ installed
  /\ installed' = TRUE
  /\ UNCHANGED <<bundleArch, name, project, heap, outputFiles, absPathToOutputIndex,
                 realPathToFiles, allMissingModules, messages, last, calls, stage>>
  /\ UNCHANGED <<sharedVars, cacheVars>>

Next ==
  \/ AddInputFiles
  \/ ScanImports
  \/ ScanMissingModules
  \/ GetOutputFiles
  \/ Install

Spec == Init /\ [][Next]_vars

\* ------------------------------------- two scanners sharing one Resolver

\* The scanners that are built with the same sourceRoot, bundleArch,
\* extensions and nodeModulesPaths, for which Resolver.getOrCreate returns one
\* cached Resolver.
ScannerIds == {"A", "B"}

\* The specifiers resolved from /app/main.js: two modules that are on no disk
\* and that a scanner may hold in memory, one that is on disk, one that is
\* nowhere.
SharedIds ==
  { <<".", "gen.js">>, <<".", "a.js">>, <<".", "util.js">>, <<".", "nope.js">> }

VirtualPaths == { <<"", "app", "gen.js">>, <<"", "app", "a.js">> }

\* this.resolver.statOrNull(absPath) as the constructor that ran last has
\* set it: the disk first, then getFile of the scanner it is bound to.
boundStatOrNull(absPath) ==
  \/ absPath \in DiskFiles
  \/ /\ resolver.statOrNull \in DOMAIN scanners
     /\ absPath \in scanners[resolver.statOrNull]

\* new ImportScanner(options): Resolver.getOrCreate hands out the cached
\* Resolver and the constructor binds its statOrNull to the new scanner.
Construct ==
  \E s \in ScannerIds \ DOMAIN scanners :
    /\ scanners' = Put(scanners, s, {})
    /\ resolver' = [resolver EXCEPT !.statOrNull = s]
    /\ UNCHANGED <<scannerVars, lastResolve, cacheVars>>

\* addFile on one of the scanners for a module that is not on disk: its path
\* becomes a key of that scanner's absPathToOutputIndex.
AddVirtualFile ==
  \E s \in DOMAIN scanners, absPath \in VirtualPaths :
    /\ absPath \notin scanners[s]
    /\ scanners' = [scanners EXCEPT ![s] = @ \cup {absPath}]
    /\ UNCHANGED <<scannerVars, resolver, lastResolve, cacheVars>>

\* resolve(parentFile, id) in a scan of one of the scanners:
\* this.resolver.resolve(id, absPath) finds the module when statOrNull does.
ResolveInScan ==
  \E s \in DOMAIN scanners, id \in SharedIds :
    /\ lastResolve' =
         [by |-> s, id |-> id,
          found |-> boundStatOrNull(Candidate(id, <<"", "app", "main.js">>)),
          own |-> Candidate(id, <<"", "app", "main.js">>) \in scanners[s]]
    /\ UNCHANGED <<scannerVars, resolver, scanners, cacheVars>>

NextShared ==
  \/ Construct
  \/ AddVirtualFile
  \/ ResolveInScan

SpecShared == Init /\ [][NextShared]_vars

\* ------------------------------------------ the compile cache of cacheDir

\* The longest queue of deferred writes a process builds up.
MaxTicks == 2

\* The modules the scans of the processes read from disk.
CachedPaths ==
  { <<"", "app", "lazy.js">>, <<"", "app", "deep.js">> }

\* readModule calling the js handler in a process whose scanner has a
\* cacheDir: the body is returned at once, and on a cache miss the write of
\* the cache file is queued with process.nextTick.
HandleJs ==
  \E p \in Processes, absPath \in CachedPaths :
    \E r \in {jsWithCacheDir(readFile(absPath), cacheFiles)} :
      /\ Len(nextTicks[p]) + Len(r.tick) <= MaxTicks
      /\ nextTicks' = [nextTicks EXCEPT ![p] = @ \o r.tick]
      /\ handled' = [by |-> p, hash |-> readFile(absPath).hash, code |-> r.code,
                     hit |-> r.hit]
      /\ UNCHANGED <<scannerVars, sharedVars, cacheFiles>>

\* writeFileAtomically, first part: the code is written, piece by piece, to a
\* temporary file of its own next to the cache file.
WriteTmpFile ==
  \E p \in Processes :
    /\ nextTicks[p] # <<>>
    /\ Head(nextTicks[p]).written < Len(Head(nextTicks[p]).code)
    /\ nextTicks' = [nextTicks EXCEPT ![p][1].written = @ + 1]
    /\ UNCHANGED <<scannerVars, sharedVars, cacheFiles, handled>>

\* writeFileAtomically, second part: the temporary file is renamed to the
\* cache file.
RenameTmpFile ==
  \E p \in Processes :
    /\ nextTicks[p] # <<>>
    /\ Head(nextTicks[p]).written = Len(Head(nextTicks[p]).code)
    /\ cacheFiles' = Put(cacheFiles, Head(nextTicks[p]).cacheFileName,
                         Head(nextTicks[p]).code)
    /\ nextTicks' = [nextTicks EXCEPT ![p] = Tail(@)]
    /\ UNCHANGED <<scannerVars, sharedVars, handled>>

\* A process dies: the writes it has queued or begun never reach the cache.
Crash ==
  \E p \in Processes :
    /\ nextTicks[p] # <<>>
    /\ nextTicks' = [nextTicks EXCEPT ![p] = <<>>]
    /\ UNCHANGED <<scannerVars, sharedVars, cacheFiles, handled>>

NextCache ==
  \/ HandleJs
  \/ WriteTmpFile
  \/ RenameTmpFile
  \/ Crash

SpecCache == Init /\ [][NextCache]_vars

\* ------------------------------------------------- mergeMissing on its own

\* The ImportInfo objects of the merged maps: recorded by one of two parents
\* or without a parent, for a static or a dynamic import.
MergeInfos ==
  { ImportInfo(parentPath, dynamic, FALSE, FALSE) :
      parentPath \in { None, Some(<<"", "app", "main.js">>),
                       Some(<<"", "app", "lazy.js">>) },
      dynamic \in BOOLEAN }

\* The lists of a source map: as in every list mergeMissing builds, no two
\* entries of a list have the same string parentPath.
MergeLists ==
  { << a >> : a \in MergeInfos }
  \cup { list \in { << a, b >> : a \in MergeInfos, b \in MergeInfos } :
           IsSome(list[2].parentPath) => list[2].parentPath # list[1].parentPath }

\* The source maps handed to mergeMissing.
MergeSources ==
  { << MissingEntry(<<"react">>, list) >> : list \in MergeLists }
  \cup { << MissingEntry(<<"vue">>, << a >>) >> :
           a \in { x \in MergeInfos : x.parentPath = Some(<<"", "app", "main.js">>) } }
  \cup { << MissingEntry(<<"react">>, << a >>), MissingEntry(<<"vue">>, << b >>) >> :
           a \in { x \in MergeInfos : x.parentPath # Some(<<"", "app", "lazy.js">>) },
           b \in { x \in MergeInfos : x.parentPath = Some(<<"", "app", "lazy.js">>) } }

\* ImportScanner.mergeMissing(target, source), with the map of a scanner as
\* target.
MergeMissing ==
  \E source \in MergeSources :
    /\ calls < MaxCalls
    /\ allMissingModules' = mergeMissingMap(allMissingModules, source)
    /\ last' = [Called("mergeMissing") EXCEPT !.input = source]
    /\ calls' = calls + 1
    /\ UNCHANGED <<bundleArch, name, heap, outputFiles, absPathToOutputIndex,
                   realPathToFiles, messages, installed, project, stage>>
    /\ UNCHANGED <<sharedVars, cacheVars>>

NextMerge == MergeMissing

SpecMerge == Init /\ [][NextMerge]_vars

\* ------------------------------------------------------- the install loop

\* The caller's loop goes on while the last scanMissingModules has returned a
\* newlyMissing that is not empty.
LoopPending == last.op = "scanMissingModules" /\ last.newlyMissing # EmptyMap

LoopDone == last.op = "scanMissingModules" /\ last.newlyMissing = EmptyMap

\* The orders in which Object.keys may list the specifiers of a map.
KeyOrders(map) ==
  { ids \in [1..Cardinality(DOMAIN map) -> DOMAIN map] :
      \A i, j \in DOMAIN ids : i # j => ids[i] # ids[j] }

\* One round of the loop: scanMissingModules is called with the newlyMissing
\* of the previous call, the file system being what it was.
InstallLoopStep ==
  /\ LoopPending
  /\ \E ids \in KeyOrders(last.newlyMissing) :
       \E m \in {[i \in DOMAIN ids |->
                    MissingEntry(ids[i], last.newlyMissing[ids[i]])]} :
         \E r \in {scanMissingModules(ScannerState, m)} :
           /\ Store(r.st)
           /\ last' = [Called("scanMissingModules") EXCEPT
                         !.input = m,
                         !.thrown = r.st.thrown, !.newlyAdded = r.newlyAdded,
                         !.visits = r.st.visits,
                         !.newlyMissing = r.newlyMissing,
                         !.scanned = last.scanned]
  /\ stage' = "mixed"
  /\ UNCHANGED <<bundleArch, name, installed, project, calls>>
  /\ UNCHANGED <<sharedVars, cacheVars>>

\* The build up to the first scanMissingModules, then the loop alone.
NextLoop ==
  \/ last.op # "scanMissingModules" /\ AddInputFiles
  \/ last.op # "scanMissingModules" /\ ScanImports
  \/ last.op # "scanMissingModules" /\ Install
  \/ last.op # "scanMissingModules" /\ ScanMissingModules
  \/ InstallLoopStep

\* A step that is a round of the loop.
IsLoopRound == LoopPending /\ last'.op = "scanMissingModules"

\* The caller runs the loop as long as newlyMissing is not empty: weak
\* fairness of InstallLoopStep, written with the state predicate LoopPending
\* in the place of ENABLED <<InstallLoopStep>>_vars (scanMissingModules can
\* always be called, and a round is never a stuttering step: RoundChangesState
\* below).
LoopFairness == []<>(~ LoopPending) \/ []<><<IsLoopRound>>_vars

SpecLoop == Init /\ [][NextLoop]_vars /\ LoopFairness

\* ------------------------------------------------------------------ claims

\* C1: when getOutputFiles returns, the array it returns holds, in the order of
\* the file set, exactly the files of the file set that have an absModuleId,
\* are not fake, have no hasErrors, and are eager or have imported in
\* {dynamic, static}; a lazy file whose imported is still false is not in it.
C1_OutputIsFilteredFileSet ==
  last.op = "getOutputFiles" =>
    LET Wanted(f) ==
          /\ f.absModuleId # <<>>
          /\ f.fake = FALSE
          /\ f.hasErrors = FALSE
          /\ (f.lazy = Some(TRUE) => f.imported \in {"dynamic", "static"})
        At(ref) == IndexOf(outputFiles, ref)
    IN /\ \A i \in DOMAIN outputFiles :
            Wanted(heap[outputFiles[i]])
              <=> (\E k \in DOMAIN last.output : last.output[k] = outputFiles[i])
       /\ \A k \in DOMAIN last.output : At(last.output[k]) > 0
       /\ \A j, k \in DOMAIN last.output :
            j < k => At(last.output[j]) < At(last.output[k])
       /\ \A k \in DOMAIN last.output :
            ~ (heap[last.output[k]].lazy = Some(TRUE)
               /\ heap[last.output[k]].imported = "false")

\* getOutputFiles has returned a lazy file that was imported dynamically and
\* has left out a lazy file of the file set that was never imported.
C1_Witness ==
  /\ last.op = "getOutputFiles"
  /\ \E k \in DOMAIN last.output :
       /\ heap[last.output[k]].lazy = Some(TRUE)
       /\ heap[last.output[k]].imported = "dynamic"
  /\ \E i \in DOMAIN outputFiles :
       /\ heap[outputFiles[i]].lazy = Some(TRUE)
       /\ heap[outputFiles[i]].imported = "false"
       /\ \A k \in DOMAIN last.output : last.output[k] # outputFiles[i]

\* C2: across every call, the imported status of every file held in the file
\* set never moves down in the order false < dynamic < static.
C2_ImportedNeverDemoted ==
  [][\A i \in DOMAIN outputFiles :
       importedStatusOrder(heap'[outputFiles[i]].imported)
         >= importedStatusOrder(heap[outputFiles[i]].imported)]_vars

\* C3: when scanImports or scanMissingModules returns, for every file F of the
\* file set that is imported and has no errors, every dependency edge of F
\* that the scan resolved (it is not among F.missingModules) and that leads to
\* a file T of the file set has T.imported = static if F is static and the
\* edge is not a dynamic import, and T.imported at least dynamic otherwise.
C3_EdgesPropagateStatus ==
  (last.op \in {"scanImports", "scanMissingModules"} /\ last.thrown = "") =>
    \A i \in DOMAIN outputFiles :
      LET F == heap[outputFiles[i]] IN
      (F.imported # "false" /\ ~ F.hasErrors /\ IsSome(F.deps)) =>
        \A k \in DOMAIN Get(F.deps) :
          LET dep == Get(F.deps)[k]
              r == ResolverResolve(ScannerState, dep.id,
                                   pathJoin(sourceRoot, F.sourcePath))
              t == getFile(ScannerState, r.path)
          IN (r.status = "resolved" /\ t # -1
              /\ dep.id \notin DOMAIN F.missingModules) =>
               IF F.imported = "static" /\ ~ dep.info.dynamic
               THEN heap[t].imported = "static"
               ELSE heap[t].imported \in {"dynamic", "static"}

\* C4: on a bundleArch that does not match web.browser (os and web.cordova
\* here), no file of the file set ever has imported = dynamic: every file is
\* either not imported or static, whatever dynamic flags the import edges and
\* the ImportInfos handed to scanMissingModules carry.
C4_NoDynamicOffBrowser ==
  ~ IsPrefix(<<"web", "browser">>, bundleArch) =>
    \A i \in DOMAIN outputFiles :
      heap[outputFiles[i]].imported \in {"false", "static"}

\* On web.cordova, scanMissingModules was handed only a dynamic ImportInfo for
\* react and loaded it, next to a file that main.js imports with import().
C4_Witness ==
  /\ bundleArch = <<"web", "cordova">>
  /\ last.op = "scanMissingModules"
  /\ <<"react">> \in DOMAIN last.newlyAdded
  /\ \A k \in DOMAIN last.newlyAdded[<<"react">>] :
       last.newlyAdded[<<"react">>][k].dynamic
  /\ \E i \in DOMAIN outputFiles :
       /\ heap[outputFiles[i]].sourcePath = <<"node_modules", "react", "index.js">>
       /\ heap[outputFiles[i]].imported = "static"
  /\ \E i \in DOMAIN outputFiles :
       /\ heap[outputFiles[i]].sourcePath = <<"lazy.js">>
       /\ heap[outputFiles[i]].imported = "static"

\* The files of the file set that the dependency edges of the file at ref lead
\* to in the current state: the module each specifier resolves to and the
\* package.json modules involved in resolving it. Dynamic import() edges count
\* only when withDynamic is set.
EdgeTargets(ref, withDynamic) ==
  LET F == heap[ref]
      deps == IF IsSome(F.deps) THEN Get(F.deps) ELSE <<>>
      Resolved(k) == ResolverResolve(ScannerState, deps[k].id,
                                     pathJoin(sourceRoot, F.sourcePath))
      Paths(k) == IF Resolved(k).status # "resolved" THEN {}
                  ELSE {Resolved(k).path}
                       \cup {Resolved(k).packageJsonMap[j].path :
                               j \in DOMAIN Resolved(k).packageJsonMap}
  IN {getFile(ScannerState, pth) :
        pth \in UNION {Paths(k) : k \in {j \in DOMAIN deps :
                                           withDynamic \/ ~ deps[j].info.dynamic}}}
     \ {-1}

RECURSIVE ReachableFrom(_, _)
\* The files reachable from the files in refs along such edges.
ReachableFrom(refs, withDynamic) ==
  LET more == refs \cup UNION {EdgeTargets(r, withDynamic) : r \in refs} IN
  IF more = refs THEN refs ELSE ReachableFrom(more, withDynamic)

\* The eager files of the file set.
EagerFiles ==
  {outputFiles[i] : i \in {j \in DOMAIN outputFiles :
                             heap[outputFiles[j]].lazy # Some(TRUE)}}

\* What C5 says of the imported statuses on web.browser.
StatusesFollowReachability ==
  /\ \A i \in DOMAIN outputFiles :
       heap[outputFiles[i]].imported = "static"
         => outputFiles[i] \in ReachableFrom(EagerFiles, FALSE)
  /\ \A r \in ReachableFrom(EagerFiles, TRUE) \ ReachableFrom(EagerFiles, FALSE) :
       heap[r].imported = "dynamic"

\* C5 (as stated): on web.browser, whenever scanImports has returned, a file
\* is static only if it is an eager file or reachable from one along edges
\* none of which is a dynamic import, and a file reachable from an eager file
\* only through a dynamic import is dynamic.
C5_AfterAnyScanImports ==
  (isWebBrowser /\ last.op = "scanImports" /\ last.thrown = "")
    => StatusesFollowReachability

\* C5 (amended): the same, when scanImports returns on a scanner that has been
\* given all its input files first and has only been asked to scanImports
\* since (no scanMissingModules, getOutputFiles or later addInputFiles).
C5_AfterInputThenScanImports ==
  (isWebBrowser /\ last.op = "scanImports" /\ last.thrown = ""
   /\ stage = "scanned")
    => StatusesFollowReachability

\* On web.browser scanImports has returned after the input files were added:
\* lazy.js, imported by import(), and deep.js, which it imports statically,
\* are dynamic, and util.js, which main.js also imports statically, is static.
C5_Witness ==
  /\ isWebBrowser /\ last.op = "scanImports" /\ stage = "scanned"
  /\ \E i, j, k \in DOMAIN outputFiles :
       /\ heap[outputFiles[i]].sourcePath = <<"lazy.js">>
       /\ heap[outputFiles[i]].imported = "dynamic"
       /\ heap[outputFiles[j]].sourcePath = <<"deep.js">>
       /\ heap[outputFiles[j]].imported = "dynamic"
       /\ heap[outputFiles[k]].sourcePath = <<"util.js">>
       /\ heap[outputFiles[k]].imported = "static"

\* C6: in every reachable state no file of the file set carries the fake
\* marker (the synthetic parents of scanMissingModules are never stored), the
\* assertion of scanFile on a looked-up dependency has not failed, and the
\* array getOutputFiles returned holds no fake file.
C6_NoFakeStored ==
  /\ \A i \in DOMAIN outputFiles :
       outputFiles[i] \in DOMAIN heap /\ ~ heap[outputFiles[i]].fake
  /\ \A key \in DOMAIN absPathToOutputIndex :
       ~ heap[outputFiles[absPathToOutputIndex[key]]].fake
  /\ last.thrown # "AssertionError"
  /\ \A k \in DOMAIN last.output : ~ heap[last.output[k]].fake

\* scanMissingModules has walked a static and a dynamic synthetic parent for
\* react: the first loaded the module, the second looked it up in the file set.
C6_Witness ==
  /\ last.op = "scanMissingModules"
  /\ <<"react">> \in DOMAIN last.newlyAdded
  /\ Len(last.newlyAdded[<<"react">>]) = 2
  /\ \E i \in DOMAIN outputFiles :
       heap[outputFiles[i]].sourcePath = <<"node_modules", "react", "index.js">>

\* C7: the file set holds at most one file per lower-cased absolute path.
\* In every reachable state the keys of absPathToOutputIndex are lower-cased
\* and pairwise distinct after lower-casing, they map one-to-one onto the
\* indexes of outputFiles (every entry is reached through exactly one key),
\* and no object is listed twice; and in every step outputFiles is only
\* appended to: its old entries stay where they were.
C7_OneFilePerLowerCasedPath ==
  /\ [](LET Lower(key) == [i \in DOMAIN key |-> LowerPart(key[i])]
            keys == DOMAIN absPathToOutputIndex
        IN /\ \A key \in keys : Lower(key) = key
           /\ \A a, b \in keys : Lower(a) = Lower(b) => a = b
           /\ \A key \in keys : absPathToOutputIndex[key] \in DOMAIN outputFiles
           /\ \A i \in DOMAIN outputFiles :
                Cardinality({key \in keys : absPathToOutputIndex[key] = i}) = 1
           /\ \A i, j \in DOMAIN outputFiles :
                outputFiles[i] = outputFiles[j] => i = j)
  /\ [][IsPrefix(outputFiles, outputFiles')]_vars

\* addInputFiles was handed main.js and Main.js: the second call found the
\* first file under the shared key and appended nothing.
C7_Witness ==
  /\ last.op = "addInputFiles"
  /\ last.thrown # ""
  /\ <<2>> \in project
  /\ Cardinality(DOMAIN absPathToOutputIndex) = Len(outputFiles)
  /\ \E i \in DOMAIN outputFiles :
       /\ heap[outputFiles[i]].sourcePath \in {<<"main.js">>, <<"Main.js">>}
       /\ toLowerCase(heap[outputFiles[i]].absPath) \in DOMAIN absPathToOutputIndex

\* C8: every file in the array getOutputFiles returned has an absModuleId that
\* begins with "/" (as a path, its first part is empty).
C8_OutputIdsStartWithSlash ==
  last.op = "getOutputFiles" =>
    \A k \in DOMAIN last.output :
      /\ Len(heap[last.output[k]].absModuleId) >= 2
      /\ heap[last.output[k]].absModuleId[1] = ""

\* C9: in every reachable state, every file of the file set whose dataString
\* is set has data equal to the UTF-8 encoding of dataString and hash equal
\* to the SHA-1 of data.
C9_DataHashFollowDataString ==
  \A i \in DOMAIN outputFiles :
    LET file == heap[outputFiles[i]] IN
    IsSome(file.dataString) =>
      /\ file.data = Some(Utf8(Get(file.dataString)))
      /\ file.hash = Some(sha1(Get(file.data)))

\* C10: once scanImports has returned and no addInputFiles call has followed,
\* a further scanImports call changes nothing: no file is added, no file
\* changes (imported, deps, missingModules, hasErrors or anything else),
\* allMissingModules stays as it is and no diagnostic is reported again.
C10_ScanImportsIdempotent ==
  [][(last.scanned /\ last'.op = "scanImports" /\ last'.repeated)
       => /\ outputFiles' = outputFiles
          /\ absPathToOutputIndex' = absPathToOutputIndex
          /\ heap' = heap
          /\ realPathToFiles' = realPathToFiles
          /\ allMissingModules' = allMissingModules
          /\ messages' = messages
          /\ last'.thrown = ""]_vars

\* scanImports has been called again, with no addInputFiles since it last
\* returned, on a scanner that holds scanned files and a reported diagnostic
\* or a recorded missing module.
C10_Witness ==
  /\ last.op = "scanImports" /\ last.repeated
  /\ \E i \in DOMAIN outputFiles : heap[outputFiles[i]].imported = "static"
  /\ (messages # <<>> \/ DOMAIN allMissingModules # {})

\* A step of scanMissingModules: the only other step that keeps the record of
\* a scanMissingModules call is Install, which changes the disk.
IsScanMissingStep == last'.op = "scanMissingModules" /\ installed' = installed

\* C11: scanMissingModules called with an empty map returns an empty
\* newlyAdded and an empty newlyMissing and changes nothing: the file set, the
\* files listed under each real path, every file's imported status and
\* allMissingModules are what they were, in whatever state the scanner is.
C11_EmptyMapIsNoOp ==
  [][(IsScanMissingStep /\ last'.input = <<>>)
       => /\ last'.newlyAdded = EmptyMap
          /\ last'.newlyMissing = EmptyMap
          /\ last'.thrown = ""
          /\ outputFiles' = outputFiles
          /\ absPathToOutputIndex' = absPathToOutputIndex
          /\ realPathToFiles' = realPathToFiles
          /\ DOMAIN heap' = DOMAIN heap
          /\ \A ref \in DOMAIN heap : heap'[ref].imported = heap[ref].imported
          /\ allMissingModules' = allMissingModules]_vars

\* scanMissingModules has been called with an empty map on a scanner that has
\* scanned files and recorded a missing module which the disk now provides.
C11_Witness ==
  /\ last.op = "scanMissingModules" /\ last.input = <<>>
  /\ installed
  /\ <<"react">> \in DOMAIN allMissingModules
  /\ \E i \in DOMAIN outputFiles : heap[outputFiles[i]].imported = "static"

\* The specifiers the walk of scanMissingModules(missingModules) records as
\* unresolved, with the ImportInfo lists it records for them, when it starts
\* in the current state.
FoundMissing(missingModules) ==
  scanMissingEach([ScannerState EXCEPT !.missing = EmptyMap], missingModules).missing

\* C12: the newlyMissing that scanMissingModules returns holds exactly the
\* specifiers that the walk of this call found unresolved and that were not a
\* key of allMissingModules before the call, each with the list the walk
\* recorded; a specifier recorded as missing before the call is never in it.
C12_NewlyMissingIsFoundMinusKnown ==
  [][(IsScanMissingStep /\ last'.input # <<>>)
       => /\ DOMAIN last'.newlyMissing
               = DOMAIN FoundMissing(last'.input) \ DOMAIN allMissingModules
          /\ \A id \in DOMAIN last'.newlyMissing :
               last'.newlyMissing[id] = FoundMissing(last'.input)[id]
          /\ DOMAIN last'.newlyMissing \cap DOMAIN allMissingModules = {}]_vars

\* scanMissingModules has walked a specifier that is still unresolvable and
\* that scanImports had already recorded as missing: newlyMissing is empty.
C12_Witness ==
  /\ last.op = "scanMissingModules" /\ last.input # <<>>
  /\ ~ installed
  /\ last.scanned
  /\ <<"react">> \in DOMAIN allMissingModules
  /\ last.newlyMissing = EmptyMap

\* The scanner as a step leaves it.
ScannerStateAfter ==
  [heap |-> heap', out |-> outputFiles', idx |-> absPathToOutputIndex',
   rp |-> realPathToFiles', missing |-> allMissingModules', msgs |-> messages',
   thrown |-> "", fakeFile |-> None, visits |-> <<>>]

\* The specifier resolves from a parent at the source root, and the module it
\* resolves to is in the file set with an imported status.
ResolvedInto(st, id) ==
  LET res == ResolverResolve(st, id, pathJoin(sourceRoot, <<"fake.js">>)) IN
  /\ res.status = "resolved"
  /\ getFile(st, res.path) # -1
  /\ st.heap[getFile(st, res.path)].imported # "false"

C14_AllMissingOnlyGrowsByNewlyMissing ==
  [][(IsScanMissingStep /\ last'.thrown = "")
       => /\ DOMAIN allMissingModules'
               = DOMAIN allMissingModules \cup DOMAIN last'.newlyMissing
          /\ \A id \in DOMAIN allMissingModules :
               allMissingModules'[id] = allMissingModules[id]
          /\ \A id \in DOMAIN last'.newlyMissing :
               allMissingModules'[id] = last'.newlyMissing[id]]_vars

\* scanMissingModules has walked two specifiers that are both unresolvable,
\* one recorded before by scanImports and one new: the first keeps the list
\* scanImports recorded, the second is the whole of newlyMissing.
C14_Witness ==
  /\ last.op = "scanMissingModules" /\ last.thrown = ""
  /\ ~ installed
  /\ last.scanned
  /\ DOMAIN last.newlyMissing = {<<"vue">>}
  /\ DOMAIN allMissingModules = {<<"react">>, <<"vue">>}
  /\ InputIds(last.input) = {<<"react">>, <<"vue">>}

\* The module the specifier react resolves to once the package is installed.
ReactMain == pathJoin(nodeModulesPaths[1], <<"react", "index.js">>)

\* allMissingModules records react as missing for a static import of a file of
\* the build (an ImportInfo that scanImports recorded, not a synthetic parent).
RecordedStaticMiss ==
  /\ <<"react">> \in DOMAIN allMissingModules
  /\ \E i \in DOMAIN allMissingModules[<<"react">>] :
       LET info == allMissingModules[<<"react">>][i] IN
       /\ ~ IsDynamicInfo(info)
       /\ info.parentPath # Some(pathJoin(sourceRoot, <<"fake.js">>))

\* The file set holds the module react resolves to, imported statically.
ReactMainIsStatic ==
  /\ toLowerCase(ReactMain) \in DOMAIN absPathToOutputIndex
  /\ heap[outputFiles[absPathToOutputIndex[toLowerCase(ReactMain)]]].imported
       = "static"

\* C15: when scanImports has recorded react as missing for a static import and
\* the package has been installed since (its main module loads and imports
\* nothing), scanMissingModules({react: [info]}) with a static info returns a
\* newlyAdded that holds react and an empty newlyMissing, and leaves the
\* module react resolves to in the file set with imported = static; the
\* module stays static, and every later getOutputFiles returns it.
C15_InstalledModuleIsAddedAndEmitted ==
  /\ [][(/\ IsScanMissingStep
          /\ installed
          /\ RecordedStaticMiss
          /\ InputIds(last'.input) = {<<"react">>}
          /\ IsSome(FirstInfo(InputList(last'.input, <<"react">>), FALSE)))
         => /\ DOMAIN last'.newlyAdded = {<<"react">>}
            /\ last'.newlyMissing = EmptyMap
            /\ ReactMainIsStatic']_vars
  /\ [][ReactMainIsStatic => ReactMainIsStatic']_vars
  /\ [](last.op = "getOutputFiles" /\ ReactMainIsStatic
          => \E k \in DOMAIN last.output :
               last.output[k]
                 = outputFiles[absPathToOutputIndex[toLowerCase(ReactMain)]])

\* getOutputFiles has returned the main module of react, imported statically,
\* on a scanner whose scanImports had recorded react as missing for a static
\* import of main.js: the module was added by scanMissingModules after the
\* package was installed.
C15_Witness ==
  /\ last.op = "getOutputFiles" /\ last.scanned
  /\ installed
  /\ RecordedStaticMiss
  /\ ReactMainIsStatic
  /\ \E k \in DOMAIN last.output :
       last.output[k] = outputFiles[absPathToOutputIndex[toLowerCase(ReactMain)]]

\* A step of addInputFiles (scanMissingModules counts its calls too, and
\* Install keeps the record of the last call).
IsAddInputStep == last'.op = "addInputFiles" /\ calls' = calls + 1

\* The k-th file of the list handed to addInputFiles in this step.
InputSeed(k) == Seeds[last'.input[k]]

\* The key of the file set under which a file handed to addInputFiles is
\* installed: its target location when it names one.
InstallKey(seed) ==
  toLowerCase(pathJoin(sourceRoot, IF IsSome(seed.targetPath)
                                   THEN Get(seed.targetPath)
                                   ELSE seed.sourcePath))

\* The file set holds an explicitly added file at the location the file is
\* installed at.
Collides(seed) ==
  /\ InstallKey(seed) \in DOMAIN absPathToOutputIndex
  /\ heap[outputFiles[absPathToOutputIndex[InstallKey(seed)]]].implicit
       # Some(TRUE)

\* The file of the file set a colliding file collides with.
Collided(seed) == heap[outputFiles[absPathToOutputIndex[InstallKey(seed)]]]

SameFlags(old, seed) == old.lazy = seed.lazy /\ old.bare = seed.bare

\* The body of a file as a string: its dataString, or its data decoded with a
\* leading hashbang line removed.
BodyOf(file) ==
  IF IsSome(file.dataString) THEN Get(file.dataString)
  ELSE stripHashBang(Utf8ToString(Get(file.data)))

\* C16: when addInputFiles is handed a file whose lower-cased path is that of
\* an explicit file of the file set with the same lazy and bare flags, no
\* error is raised and the file set still holds exactly one file for the path,
\* the old one at its old index; its body is the old body, "\n\n" and the new
\* body, its data and hash are computed from that body, and its imported
\* status is the higher of the two (the old file's, the new one being false).
C16_CollisionCombinesBodies ==
  [][(/\ IsAddInputStep
      /\ \A k \in DOMAIN last'.input :
           Collides(InputSeed(k)) => SameFlags(Collided(InputSeed(k)), InputSeed(k)))
       => /\ last'.thrown = ""
          /\ \A k \in DOMAIN last'.input :
               Collides(InputSeed(k)) =>
                 LET key == InstallKey(InputSeed(k))
                     index == absPathToOutputIndex[key]
                     old == heap[outputFiles[index]]
                     body == BodyOf(old) \o << Text("\n\n") >> \o BodyOf(InputSeed(k))
                 IN /\ absPathToOutputIndex'[key] = index
                    /\ outputFiles'[index] = outputFiles[index]
                    /\ \A i \in DOMAIN outputFiles' :
                         toLowerCase(heap'[outputFiles'[i]].absPath) = key
                           => i = index
                    /\ heap'[outputFiles[index]].dataString = Some(body)
                    /\ heap'[outputFiles[index]].data = Some(Utf8(body))
                    /\ heap'[outputFiles[index]].hash = Some(sha1(Utf8(body)))
                    /\ heap'[outputFiles[index]].imported = old.imported
                    /\ heap'[outputFiles[index]].lazy = old.lazy
                    /\ heap'[outputFiles[index]].bare = old.bare]_vars

\* addInputFiles has combined a second file into a file that a scan had
\* already marked static: the file holds both bodies and is still static.
C16_Witness ==
  /\ last.op = "addInputFiles" /\ last.thrown = ""
  /\ \E i \in DOMAIN outputFiles :
       LET file == heap[outputFiles[i]] IN
       /\ file.imported = "static"
       /\ file.implicit # Some(TRUE)
       /\ IsSome(file.dataString)
       /\ \E n \in DOMAIN Get(file.dataString) :
            Get(file.dataString)[n] = Text("\n\n")

IsGetOutputStep == last'.op = "getOutputFiles" /\ installed' = installed

\* C18: when getOutputFiles returns, in every group of two or more files
\* listed under one real path exactly one member is the container, the first
\* member whose absModuleId starts with /node_modules/ or else the first
\* member; every other member has alias.absModuleId equal to the container's
\* absModuleId, the container is given no alias, and every member has the
\* same imported status, the highest any member had before the call.
C18_RealPathGroupsAreAliased ==
  [][IsGetOutputStep
       => \A real \in DOMAIN realPathToFiles :
            LET files == realPathToFiles[real]
                inside == {i \in DOMAIN files :
                             LET id == heap[files[i]].absModuleId IN
                             Len(id) >= 3 /\ id[1] = "" /\ id[2] = "node_modules"}
                first == IF inside = {} THEN 1
                         ELSE CHOOSE i \in inside : \A j \in inside : i <= j
            IN Len(files) >= 2 =>
                 /\ realPathToFiles'[real] = files
                 /\ \A i \in DOMAIN files :
                      /\ i # first =>
                           /\ files[i] # files[first]
                           /\ IsSome(heap'[files[i]].alias)
                           /\ Get(heap'[files[i]].alias).absModuleId
                                = heap'[files[first]].absModuleId
                      /\ \A j \in DOMAIN files :
                           importedStatusOrder(heap[files[j]].imported)
                             <= importedStatusOrder(heap'[files[i]].imported)
                      /\ \E j \in DOMAIN files :
                           heap[files[j]].imported = heap'[files[i]].imported
                 /\ heap'[files[first]].alias = heap[files[first]].alias
                 /\ heap'[files[first]].absModuleId = heap[files[first]].absModuleId]_vars

\* getOutputFiles has returned on a scanner that lists the application's
\* lib/x.js first and node_modules/x.js, a link to it, second under one real
\* path: the second is the container, the first is its alias, both are static.
C18_Witness ==
  /\ last.op = "getOutputFiles"
  /\ \E real \in DOMAIN realPathToFiles :
       LET files == realPathToFiles[real] IN
       /\ Len(files) = 2
       /\ heap[files[1]].absModuleId = <<"", "lib", "x.js">>
       /\ heap[files[2]].absModuleId = <<"", "node_modules", "x.js">>
       /\ heap[files[1]].alias # None
       /\ Get(heap[files[1]].alias).absModuleId = <<"", "node_modules", "x.js">>
       /\ heap[files[2]].alias = None
       /\ heap[files[1]].imported = "static"
       /\ heap[files[2]].imported = "static"

\* The key of the file set for the source location of a file handed to
\* addInputFiles.
SourceKey(seed) == toLowerCase(pathJoin(sourceRoot, seed.sourcePath))

\* The file names a targetPath other than its sourcePath, and the file set
\* holds an explicitly added file at its source location.
RedirectsFromExplicit(seed) ==
  /\ IsSome(seed.targetPath)
  /\ Get(seed.targetPath) # seed.sourcePath
  /\ SourceKey(seed) \in DOMAIN absPathToOutputIndex
  /\ heap[outputFiles[absPathToOutputIndex[SourceKey(seed)]]].implicit # Some(TRUE)

\* C19: when addInputFiles is handed a file with a targetPath other than its
\* sourcePath while the file set holds an explicit file at the source
\* location, the explicit file stays the file of the source location with its
\* body, data, hash and deps unchanged, and the new file is installed at the
\* target location only.
C19_ExplicitSourceIsKept ==
  [][IsAddInputStep
       => \A k \in DOMAIN last'.input :
            RedirectsFromExplicit(InputSeed(k)) =>
              LET seed == InputSeed(k)
                  index == absPathToOutputIndex[SourceKey(seed)]
                  old == heap[outputFiles[index]]
                  kept == heap'[outputFiles[index]]
              IN /\ absPathToOutputIndex'[SourceKey(seed)] = index
                 /\ outputFiles'[index] = outputFiles[index]
                 /\ kept.dataString = old.dataString
                 /\ kept.data = old.data
                 /\ kept.hash = old.hash
                 /\ kept.deps = old.deps
                 /\ kept.implicit = old.implicit
                 /\ last'.thrown = "" =>
                      /\ InstallKey(seed) \in DOMAIN absPathToOutputIndex'
                      /\ LET new == heap'[outputFiles'[absPathToOutputIndex'[InstallKey(seed)]]]
                         IN /\ new.sourcePath = Get(seed.targetPath)
                            /\ new.absModuleId = <<"">> \o Get(seed.targetPath)
                            /\ \E n \in DOMAIN Get(new.data) :
                                 Get(new.data)[n] = Last(Get(seed.data))]_vars

\* addInputFiles has installed at b.js a file whose sourcePath is a.js while
\* a.js was in the file set as an explicit file: a.js holds its own body and
\* no link to b.js.
C19_Witness ==
  /\ last.op = "addInputFiles" /\ last.input = <<1, 3>> /\ last.thrown = ""
  /\ toLowerCase(pathJoin(sourceRoot, <<"a.js">>)) \in DOMAIN absPathToOutputIndex
  /\ toLowerCase(pathJoin(sourceRoot, <<"b.js">>)) \in DOMAIN absPathToOutputIndex
  /\ LET file == heap[outputFiles[absPathToOutputIndex[
                    toLowerCase(pathJoin(sourceRoot, <<"a.js">>))]]]
     IN /\ file.implicit # Some(TRUE)
        /\ file.data = Some(Utf8(<< Text("a") >>))
        /\ file.dataString \in {None, Some(<< Text("a") >>)}

\* The directory that is left out on the architecture being bundled for:
\* client on a server architecture, server on a web architecture.
OtherSideDir == IF archMatches(bundleArch, <<"os">>) THEN "client" ELSE "server"

\* The path (relative to the source root) has a directory component of the
\* other side that no node_modules component precedes.
InOtherSideDir(sourcePath) ==
  \E i \in 1..(Len(sourcePath) - 1) :
    /\ sourcePath[i] = OtherSideDir
    /\ \A j \in 1..(i - 1) : sourcePath[j] # "node_modules"

\* The path has a directory component of the other side inside a node_modules
\* directory, and none outside.
InOtherSideDirOfNodeModules(sourcePath) ==
  /\ ~ InOtherSideDir(sourcePath)
  /\ \E i \in 1..(Len(sourcePath) - 1) : sourcePath[i] = OtherSideDir

IsScanImportsStep == last'.op = "scanImports" /\ installed' = installed

\* The files a scan step has walked: those it has raised the imported status
\* of and whose dependencies it has read.
WalkedInStep ==
  {r \in DOMAIN heap' :
     /\ r \notin DOMAIN heap \/ heap'[r].imported # heap[r].imported
     /\ heap'[r].imported # "false"
     /\ IsSome(heap'[r].deps) /\ ~ heap'[r].hasErrors
     /\ ~ IsSome(heap'[r].alias)
     /\ heap'[r].implicit # Some(TRUE)}

\* The ImportInfo a miss of the k-th dependency of the walked file leaves.
MissInfoOf(file, k) ==
  LET info == Get(file.deps)[k].info IN
  ImportInfo(Some(pathJoin(sourceRoot, file.sourcePath)), info.dynamic,
             isWebBrowser /\ (file.imported = "dynamic" \/ info.parentWasDynamic
                              \/ info.dynamic),
             info.possiblySpurious)

\* The map that is this.allMissingModules while the walk of the step runs:
\* the scanner's map in scanImports, the temporary map in scanMissingModules.
MapOfWalk ==
  IF last'.op = "scanImports" THEN allMissingModules'
  ELSE FoundMissing(last'.input)

\* The k-th dependency of the walked file has been followed: the module it
\* names is in the file set with an imported status, unless the module cannot
\* be installed on this architecture.
DepFollowed(file, k) ==
  LET res == ResolverResolve(ScannerStateAfter, Get(file.deps)[k].id,
                             pathJoin(sourceRoot, file.sourcePath))
      depRef == getFile(ScannerStateAfter, res.path)
  IN \/ res.id = <<>>
     \/ depRef # -1 /\ heap'[depRef].imported # "false"

\* C21: when a file walked by scanImports or scanMissingModules imports a
\* specifier the Resolver cannot resolve, the call does not fail: the file's
\* missingModules holds under that specifier an ImportInfo with the file's
\* absolute path, the edge's dynamic and possiblySpurious flags and the
\* parentWasDynamic of the walk, the same ImportInfo is in the list recorded
\* under the specifier in the map that is allMissingModules during the walk,
\* every other dependency of the file is followed, and scanImports still
\* walks every eager file.
C21_MissIsRecordedAndWalkGoesOn ==
  [][(IsScanImportsStep \/ (IsScanMissingStep /\ last'.input # <<>>))
       => /\ last'.thrown = ""
          /\ \A r \in WalkedInStep :
               LET file == heap'[r]
                   deps == Get(file.deps)
               IN \A k \in DOMAIN deps :
                    IF ResolverResolve(ScannerStateAfter, deps[k].id,
                                       pathJoin(sourceRoot, file.sourcePath)).status
                         = "missing"
                    THEN /\ deps[k].id \in DOMAIN file.missingModules
                         /\ file.missingModules[deps[k].id] = MissInfoOf(file, k)
                         /\ deps[k].id \in DOMAIN MapOfWalk
                         /\ \E n \in DOMAIN MapOfWalk[deps[k].id] :
                              MapOfWalk[deps[k].id][n] = MissInfoOf(file, k)
                    ELSE DepFollowed(file, k)
          /\ IsScanImportsStep =>
               \A i \in DOMAIN outputFiles :
                 heap[outputFiles[i]].lazy # Some(TRUE)
                   => heap'[outputFiles[i]].imported = "static"]_vars

\* scanImports has returned without an error on a scanner holding the eager
\* main.js and, after it, the eager server/boot.js: react, which main.js
\* imports and which is not installed, is recorded on main.js and in
\* allMissingModules, node_modules/x.js, which main.js imports after react, is
\* in the file set with an imported status, and server/boot.js is static.
C21_Witness ==
  /\ last.op = "scanImports" /\ last.thrown = ""
  /\ <<"react">> \in DOMAIN allMissingModules
  /\ \E i, j \in DOMAIN outputFiles :
       /\ i < j
       /\ heap[outputFiles[i]].sourcePath = <<"main.js">>
       /\ heap[outputFiles[i]].imported = "static"
       /\ <<"react">> \in DOMAIN heap[outputFiles[i]].missingModules
       /\ \E n \in DOMAIN allMissingModules[<<"react">>] :
            allMissingModules[<<"react">>][n]
              = heap[outputFiles[i]].missingModules[<<"react">>]
       /\ heap[outputFiles[j]].sourcePath = <<"server", "boot.js">>
       /\ heap[outputFiles[j]].imported = "static"
  /\ \E i \in DOMAIN outputFiles :
       /\ heap[outputFiles[i]].sourcePath = <<"node_modules", "x.js">>
       /\ heap[outputFiles[i]].imported # "false"

\* scanMissingModules has walked peer.js, which imports react and vue, on a
\* scanner that had recorded react before: peer.js holds both misses, vue is
\* returned as newly missing and react is not.
C21_WitnessInMissingWalk ==
  /\ last.op = "scanMissingModules" /\ last.thrown = ""
  /\ <<"vue">> \in DOMAIN last.newlyMissing
  /\ <<"react">> \notin DOMAIN last.newlyMissing
  /\ \E i \in DOMAIN outputFiles :
       /\ heap[outputFiles[i]].sourcePath = <<"peer.js">>
       /\ {<<"react">>, <<"vue">>} \subseteq DOMAIN heap[outputFiles[i]].missingModules

\* The number of reports of pending errors for the file at sourcePath.
PendingReports(msgs, sourcePath) ==
  Cardinality({n \in DOMAIN msgs :
                 msgs[n].kind = "pending" /\ msgs[n].file = sourcePath})

\* The step has reached the file in a walk: it has raised its imported status.
ReachedInStep(r) ==
  /\ heap'[r].imported # "false"
  /\ r \notin DOMAIN heap \/ heap'[r].imported # heap[r].imported
  /\ last'.op \in {"scanImports", "scanMissingModules"}

\* C22: pending compiler errors of a file are reported only in a step whose
\* walk reaches the file; a file reached with a positive count gets
\* hasErrors = true in that step and its dependencies are not read or walked
\* in it; no step clears hasErrors; and no file with hasErrors is returned by
\* getOutputFiles, eager or not.
C22_PendingErrorsMarkAndStop ==
  /\ [][/\ \A r \in DOMAIN heap' :
             LET file == heap'[r] IN
             /\ (r \in DOMAIN heap /\ heap[r].hasErrors) => file.hasErrors
             /\ (file.hasErrors /\ (r \notin DOMAIN heap \/ ~ heap[r].hasErrors))
                  => /\ ReachedInStep(r)
                     /\ file.pendingErrors > 0
                     /\ PendingReports(messages', file.sourcePath)
                          > PendingReports(messages, file.sourcePath)
                     /\ r \in DOMAIN heap
                     /\ file.deps = heap[r].deps
                     /\ file.missingModules = heap[r].missingModules
             /\ (ReachedInStep(r) /\ file.pendingErrors > 0) => file.hasErrors
             /\ (ReachedInStep(r) /\ file.hasErrors
                   /\ ~ IsSome(file.deps) /\ ~ IsSome(file.alias))
                  => \A k \in DOMAIN DepsOfBody(BodyOf(file)) :
                       LET res == ResolverResolve(
                                    ScannerStateAfter,
                                    DepsOfBody(BodyOf(file))[k].id,
                                    pathJoin(sourceRoot, file.sourcePath))
                       IN (res.status = "resolved"
                             /\ getFile(ScannerState, res.path) = -1)
                          => getFile(ScannerStateAfter, res.path) = -1
        /\ \A i \in DOMAIN outputFiles' :
             PendingReports(messages', heap'[outputFiles'[i]].sourcePath)
               > PendingReports(messages, heap'[outputFiles'[i]].sourcePath)
             => \E r \in DOMAIN heap' :
                  /\ heap'[r].sourcePath = heap'[outputFiles'[i]].sourcePath
                  /\ ReachedInStep(r)]_vars
  /\ [](last.op = "getOutputFiles"
          => \A k \in DOMAIN last.output : ~ heap[last.output[k]].hasErrors)

\* getOutputFiles has returned after scanImports reached the eager err.js,
\* which has a pending error and imports ./lazy.js: err.js is static and has
\* hasErrors, its dependencies were not read, lazy.js is not in the file set
\* and err.js is not returned, while the eager own.js is.
C22_Witness ==
  /\ last.op = "getOutputFiles"
  /\ \E i \in DOMAIN outputFiles :
       LET file == heap[outputFiles[i]] IN
       /\ file.sourcePath = <<"err.js">>
       /\ file.lazy = Some(FALSE)
       /\ file.imported = "static"
       /\ file.hasErrors
       /\ ~ IsSome(file.deps)
       /\ \A k \in DOMAIN last.output : last.output[k] # outputFiles[i]
  /\ \E k \in DOMAIN last.output : heap[last.output[k]].sourcePath = <<"own.js">>
  /\ \A i \in DOMAIN outputFiles : heap[outputFiles[i]].sourcePath # <<"lazy.js">>
  /\ PendingReports(messages, <<"err.js">>) = 1

\* The number of reports of a parse error at the place of the first token of
\* the file's body that does not parse, under the file's sourcePath.
ParseReports(msgs, file) ==
  Cardinality({n \in DOMAIN msgs :
                 /\ msgs[n].kind = "parse"
                 /\ msgs[n].file = file.sourcePath
                 /\ msgs[n].line = ParseErrorLoc(BodyOf(file)).line
                 /\ msgs[n].column = ParseErrorLoc(BodyOf(file)).column})

\* The step has reached, with no pending errors and no dependencies read
\* before, a file whose body does not parse.
ParseFailedInStep(r) ==
  /\ ReachedInStep(r)
  /\ heap'[r].pendingErrors = 0
  /\ r \in DOMAIN heap => ~ IsSome(heap[r].deps)
  /\ IsSome(heap'[r].dataString) \/ IsSome(heap'[r].data)
  /\ HasParseError(BodyOf(heap'[r]))

\* C23 as stated, for the deps of the file: a file of the file set that a
\* parse error was reported for has an empty deps map.
C23_ParseErrorMarksDepsEmpty ==
  \A i \in DOMAIN outputFiles :
    LET file == heap[outputFiles[i]] IN
    (file.imported # "false" /\ file.pendingErrors = 0
       /\ HasParseError(BodyOf(file)) /\ ParseReports(messages, file) > 0)
    => file.deps = Some(<< >>)

\* C23: when a scan reaches a file whose body does not parse, one error with
\* the file's sourcePath and the line and column of the ParseError is added
\* to the message sink, the file's deps stay unset (so a later visit that
\* raises the file's status parses it and reports the error again), nothing
\* of the file is walked, the call returns without an error, every other
\* dependency of the walked files is followed and scanImports leaves every
\* eager file static.
C23_ParseErrorIsReportedAndScanGoesOn ==
  [][(IsScanImportsStep \/ (IsScanMissingStep /\ last'.input # <<>>))
       => /\ last'.thrown = ""
          /\ \A r \in DOMAIN heap' :
               ParseFailedInStep(r)
               => /\ ParseReports(messages', heap'[r])
                       > ParseReports(messages, heap'[r])
                  /\ ~ IsSome(heap'[r].deps)
                  /\ heap'[r].missingModules = EmptyMap
                  /\ ~ heap'[r].hasErrors
          /\ \A r \in WalkedInStep :
               \A k \in DOMAIN Get(heap'[r].deps) :
                 ResolverResolve(ScannerStateAfter, Get(heap'[r].deps)[k].id,
                                 pathJoin(sourceRoot, heap'[r].sourcePath)).status
                   = "resolved"
                 => DepFollowed(heap'[r], k)
          /\ IsScanImportsStep =>
               \A i \in DOMAIN outputFiles :
                 heap[outputFiles[i]].lazy # Some(TRUE)
                   => heap'[outputFiles[i]].imported = "static"]_vars

\* scanMissingModules has walked peer.js, which imports ./bad.js and then
\* ./util.js, after scanImports had reached bad.js through a dynamic import:
\* bad.js is static, its deps are unset, its parse error at line 2 has been
\* reported twice, and util.js is static.
C23_Witness ==
  /\ last.op = "scanMissingModules" /\ last.thrown = ""
  /\ \E i, j \in DOMAIN outputFiles :
       /\ heap[outputFiles[i]].sourcePath = <<"bad.js">>
       /\ heap[outputFiles[i]].imported = "static"
       /\ ~ IsSome(heap[outputFiles[i]].deps)
       /\ ParseReports(messages, heap[outputFiles[i]]) = 2
       /\ ParseErrorLoc(BodyOf(heap[outputFiles[i]])).line = 2
       /\ heap[outputFiles[j]].sourcePath = <<"util.js">>
       /\ heap[outputFiles[j]].imported = "static"
  /\ \E i \in DOMAIN outputFiles :
       /\ heap[outputFiles[i]].sourcePath = <<"peer.js">>
       /\ heap[outputFiles[i]].imported = "static"

\* The directories of node_modules that hold the packages of an npm scope.
NpmScopes == {"@s"}

\* The root of the npm package a module identifier lies in: the prefix up to
\* the package directory after the last node_modules component, which for a
\* scoped package is the directory below the scope.
NpmPackageRoot(id) ==
  LET nmi == LastIndexOf(id, "node_modules") IN
  IF nmi > 0 /\ nmi < Len(id) /\ id[nmi + 1] \in NpmScopes
  THEN SubSeq(id, 1, nmi + 2)
  ELSE SubSeq(id, 1, nmi + 1)

\* The file has an alias that no group of files with one real path accounts
\* for: an alias established from a browser field.
HasBrowserAlias(file) ==
  /\ IsSome(file.alias)
  /\ \A real \in DOMAIN realPathToFiles :
       \/ Len(realPathToFiles[real]) < 2
       \/ \A n \in DOMAIN realPathToFiles[real] :
            heap[realPathToFiles[real][n]].sourcePath # file.sourcePath

\* The package.json pkgFile names the file as a key of its browser field.
BrowserFieldNames(pkgFile, file) ==
  /\ IsSome(pkgFile.jsonData)
  /\ \E k \in DOMAIN Get(pkgFile.jsonData).browser :
       LET res == ResolverResolve(ScannerState,
                                  Get(pkgFile.jsonData).browser[k].source,
                                  pathJoin(sourceRoot, pkgFile.sourcePath))
       IN res.status = "resolved"
          /\ res.path = pathJoin(sourceRoot, file.sourcePath)

\* C24: a file of the file set has an alias from a browser field only on a
\* web architecture and only when a package.json of the file's own npm
\* package names it in its browser field; the package.json of another
\* package, one of the same npm scope included, establishes none.
C24_BrowserAliasOnlyInOwnPackage ==
  \A i \in DOMAIN outputFiles :
    LET file == heap[outputFiles[i]] IN
    HasBrowserAlias(file)
    => /\ isWeb
       /\ \E j \in DOMAIN outputFiles :
            /\ BrowserFieldNames(heap[outputFiles[j]], file)
            /\ NpmPackageRoot(heap[outputFiles[j]].absModuleId)
                 = NpmPackageRoot(file.absModuleId)

\* C24 with the package root as getPackageRoot computes it, which is the
\* scope directory for a scoped package: this much holds of the code.
C24_BrowserAliasOnlyUnderSameRoot ==
  \A i \in DOMAIN outputFiles :
    LET file == heap[outputFiles[i]] IN
    HasBrowserAlias(file)
    => /\ isWeb
       /\ \E j \in DOMAIN outputFiles :
            /\ BrowserFieldNames(heap[outputFiles[j]], file)
            /\ getPackageRoot(heap[outputFiles[j]].absModuleId)
                 = getPackageRoot(file.absModuleId)

\* The failing case of C24: scanImports of app.js on a web architecture has
\* added the package.json of @s/a, whose browser field has given the module
\* x.js of the package @s/b an alias to web.js of @s/a, while y.js of the
\* package pb has none.
C24_AliasAcrossPackagesOfOneScope ==
  /\ isWeb
  /\ last.op = "scanImports"
  /\ \E i \in DOMAIN outputFiles :
       LET file == heap[outputFiles[i]] IN
       /\ file.sourcePath = <<"node_modules", "@s", "b", "x.js">>
       /\ IsSome(file.alias)
       /\ Get(file.alias).absModuleId = <<"", "node_modules", "@s", "a", "web.js">>
  /\ \E i \in DOMAIN outputFiles :
       LET file == heap[outputFiles[i]] IN
       /\ file.sourcePath = <<"node_modules", "pb", "y.js">>
       /\ ~ IsSome(file.alias)

\* C25: whenever one of two scanners that share the cached Resolver resolves
\* a specifier, a module that is not on disk is found exactly when the
\* resolving scanner itself holds it in its file set.
C25_ResolveConsultsOwnFileSet ==
  (lastResolve.by # "none"
     /\ Candidate(lastResolve.id, <<"", "app", "main.js">>) \in VirtualPaths)
  => lastResolve.found = lastResolve.own

\* The failing case of C25: scanner A holds a module in memory, scanner B was
\* constructed after A, and the module is not found in A's scan.
C25_OwnVirtualFileNotFound ==
  /\ lastResolve.by = "A" /\ lastResolve.own /\ ~ lastResolve.found
  /\ resolver.statOrNull = "B"

\* What holds of the code: the Resolver consults the file set of the scanner
\* that was constructed last.
C25_ResolveConsultsLastConstructed ==
  (lastResolve.by # "none"
     /\ Candidate(lastResolve.id, <<"", "app", "main.js">>) \in VirtualPaths
     /\ lastResolve.by = resolver.statOrNull)
  => lastResolve.found = lastResolve.own

\* The body a compile of the module at absPath returns.
FreshCompile(absPath) ==
  reifyCompile(stripHashBang(Get(readFile(absPath).dataString)))

\* A step in which the handler has compiled a module whose cache file was
\* absent.
IsCacheMissStep ==
  /\ handled' # handled \/ nextTicks' # nextTicks
  /\ cacheFiles' = cacheFiles
  /\ \E p \in Processes : Len(nextTicks'[p]) > Len(nextTicks[p])

\* C26: with a cacheDir, the js handler returns the body a fresh compile
\* gives, and on a cache miss it returns while the write of the cache file
\* is still queued (the step does not touch the cache directory); in every
\* state, whichever writes are queued, half done or lost in a crash, and
\* however many processes have compiled the same module, the cache file of a
\* hash is absent or holds the whole compiled body of the module with that
\* hash, which is what a later call reads.
C26_CacheFileAbsentOrComplete ==
  /\ [](\A absPath \in CachedPaths :
          getCacheFileName(readFile(absPath)) \in DOMAIN cacheFiles
          => cacheFiles[getCacheFileName(readFile(absPath))]
               = FreshCompile(absPath))
  /\ [](\A absPath \in CachedPaths :
          (handled.by # 0 /\ handled.hash = readFile(absPath).hash)
          => handled.code = FreshCompile(absPath))
  /\ [][IsCacheMissStep
          => /\ ~ handled'.hit
             /\ cacheFiles' = cacheFiles
             /\ \E p \in Processes :
                  /\ nextTicks'[p] # <<>>
                  /\ nextTicks'[p][Len(nextTicks'[p])].written = 0
                  /\ nextTicks'[p][Len(nextTicks'[p])].code = handled'.code]_vars

\* Both processes have compiled deep.js, the first has renamed its temporary
\* file to the cache file, the second has written half of its own, and a
\* call of the handler has read the complete body from the cache.
C26_Witness ==
  /\ getCacheFileName(readFile(<<"", "app", "deep.js">>)) \in DOMAIN cacheFiles
  /\ handled.hit
  /\ handled.hash = readFile(<<"", "app", "deep.js">>).hash
  /\ \E p \in Processes :
       /\ nextTicks[p] # <<>>
       /\ Head(nextTicks[p]).cacheFileName
            = getCacheFileName(readFile(<<"", "app", "deep.js">>))
       /\ Head(nextTicks[p]).written = 1

\* A crash has emptied the queue of a process that had compiled lazy.js: the
\* cache file of lazy.js is absent and the next call compiles again.
C26_WitnessAfterCrash ==
  /\ handled.by # 0 /\ ~ handled.hit
  /\ handled.hash = readFile(<<"", "app", "lazy.js">>).hash
  /\ \A p \in Processes : nextTicks[p] = <<>>
  /\ cacheFiles = EmptyMap

\* The file names a targetPath other than its sourcePath.
Redirects(seed) ==
  IsSome(seed.targetPath) /\ Get(seed.targetPath) # seed.sourcePath

\* The source location of the file holds no file, or the implicit module an
\* earlier file with that sourcePath has left there, and no file of the list
\* is installed at it.
SourceIsFreeOrProxy(seed) ==
  /\ Redirects(seed)
  /\ \A k \in DOMAIN last'.input : InstallKey(InputSeed(k)) # SourceKey(seed)
  /\ SourceKey(seed) \in DOMAIN absPathToOutputIndex
       => LET old == heap[outputFiles[absPathToOutputIndex[SourceKey(seed)]]]
          IN old.implicit = Some(TRUE) /\ IsSome(old.dataString) /\ IsSome(old.deps)

\* The identifier by which the module at the source location of the file
\* names the module at its target location.
LinkId(seed) ==
  getRelativeImportId(<<"">> \o seed.sourcePath, <<"">> \o Get(seed.targetPath))

\* The module.link lines the files of the list from the k-th on add to the
\* module at the lower-cased location key, in the order of the list.
RECURSIVE LinksFrom(_, _, _)
LinksFrom(list, k, key) ==
  IF k > Len(list) THEN <<>>
  ELSE (IF Redirects(Seeds[list[k]]) /\ SourceKey(Seeds[list[k]]) = key
        THEN << Tok("module.link", LinkId(Seeds[list[k]])) >>
        ELSE <<>>)
       \o LinksFrom(list, k + 1, key)

\* C27: when addInputFiles is handed a file whose targetPath differs from its
\* sourcePath and the source location holds no file, the file is installed
\* under the target path and module identifier and the source location holds
\* an implicit, lazy file that is not imported, whose body is one module.link
\* line naming the target by its relative identifier and whose deps hold that
\* identifier as a static edge; every further file with the same sourcePath
\* and another targetPath, in the same call or a later one, appends one line
\* and one edge to that same module and leaves the earlier lines in place.
C27_ProxyLinksEveryTarget ==
  [][(IsAddInputStep /\ last'.thrown = "")
       => \A k \in DOMAIN last'.input :
            SourceIsFreeOrProxy(InputSeed(k)) =>
              LET seed == InputSeed(k)
                  key == SourceKey(seed)
                  known == key \in DOMAIN absPathToOutputIndex
                  oldBody == IF known
                             THEN Get(heap[outputFiles[absPathToOutputIndex[key]]].dataString)
                             ELSE <<>>
                  oldDeps == IF known
                             THEN Get(heap[outputFiles[absPathToOutputIndex[key]]].deps)
                             ELSE <<>>
                  links == LinksFrom(last'.input, 1, key)
              IN /\ key \in DOMAIN absPathToOutputIndex'
                 /\ known => /\ absPathToOutputIndex'[key] = absPathToOutputIndex[key]
                             /\ outputFiles'[absPathToOutputIndex[key]]
                                  = outputFiles[absPathToOutputIndex[key]]
                 /\ LET proxy == heap'[outputFiles'[absPathToOutputIndex'[key]]]
                    IN /\ proxy.implicit = Some(TRUE)
                       /\ proxy.lazy = Some(TRUE)
                       /\ ~ known => proxy.imported = "false"
                       /\ proxy.sourcePath = seed.sourcePath
                       /\ proxy.dataString = Some(oldBody \o links)
                       /\ proxy.data = Some(Utf8(oldBody \o links))
                       /\ { Get(proxy.deps)[i].id : i \in DOMAIN Get(proxy.deps) }
                            = { oldDeps[i].id : i \in DOMAIN oldDeps }
                                \cup { links[i].id : i \in DOMAIN links }
                       /\ Len(Get(proxy.deps))
                            = Cardinality({ oldDeps[i].id : i \in DOMAIN oldDeps }
                                          \cup { links[i].id : i \in DOMAIN links })
                       /\ \A i \in DOMAIN Get(proxy.deps) :
                            (\E j \in DOMAIN links : links[j].id = Get(proxy.deps)[i].id)
                            => ~ Get(proxy.deps)[i].info.dynamic
                 /\ InstallKey(seed) \in DOMAIN absPathToOutputIndex'
                 /\ LET new == heap'[outputFiles'[absPathToOutputIndex'[InstallKey(seed)]]]
                    IN /\ new.sourcePath = Get(seed.targetPath)
                       /\ new.absModuleId = <<"">> \o Get(seed.targetPath)
                       /\ new.implicit # Some(TRUE)
                       /\ \E n \in DOMAIN Get(new.data) :
                            Get(new.data)[n] = Last(Get(seed.data))]_vars

\* addInputFiles has been handed a.js with targetPath b.js and then, in a
\* later call, a.js with targetPath b.js and a.js with targetPath c.js: the
\* implicit a.js holds three lines, two for b.js and one for c.js, and two
\* static edges, and b.js and c.js are in the file set.
C27_Witness ==
  /\ last.op = "addInputFiles" /\ last.input = <<3, 12>> /\ last.thrown = ""
  /\ toLowerCase(pathJoin(sourceRoot, <<"c.js">>)) \in DOMAIN absPathToOutputIndex
  /\ toLowerCase(pathJoin(sourceRoot, <<"b.js">>)) \in DOMAIN absPathToOutputIndex
  /\ toLowerCase(pathJoin(sourceRoot, <<"a.js">>)) \in DOMAIN absPathToOutputIndex
  /\ LET proxy == heap[outputFiles[absPathToOutputIndex[
                     toLowerCase(pathJoin(sourceRoot, <<"a.js">>))]]]
     IN /\ proxy.implicit = Some(TRUE)
        /\ proxy.imported = "false"
        /\ proxy.dataString
             = Some(<< Tok("module.link", <<".", "b.js">>),
                       Tok("module.link", <<".", "b.js">>),
                       Tok("module.link", <<".", "c.js">>) >>)
        /\ Len(Get(proxy.deps)) = 2

\* The file is explicit and the file set holds an implicit file at the
\* location it is installed at; no other file of the list is installed at
\* that location or has it as its source location.
ReplacesPlaceholder(k) ==
  LET seed == InputSeed(k) IN
  /\ seed.implicit # Some(TRUE)
  /\ InstallKey(seed) \in DOMAIN absPathToOutputIndex
  /\ heap[outputFiles[absPathToOutputIndex[InstallKey(seed)]]].implicit = Some(TRUE)
  /\ \A j \in DOMAIN last'.input :
       j # k => /\ InstallKey(InputSeed(j)) # InstallKey(seed)
                /\ SourceKey(InputSeed(j)) # InstallKey(seed)

\* C28: when addInputFiles is handed an explicit file for the location of an
\* implicit file of the file set, the implicit file is replaced in place: the
\* location keeps its index, the file there is no longer implicit, its body
\* is the body of the explicit file and its deps are the explicit file's own
\* (not yet extracted, or those of its own body), not the implicit file's.
C28_ExplicitReplacesPlaceholder ==
  [][(IsAddInputStep /\ last'.thrown = "")
       => \A k \in DOMAIN last'.input :
            ReplacesPlaceholder(k) =>
              LET seed == InputSeed(k)
                  key == InstallKey(seed)
                  index == absPathToOutputIndex[key]
                  new == heap'[outputFiles'[index]]
                  body == stripHashBang(Utf8ToString(Get(seed.data)))
              IN /\ absPathToOutputIndex'[key] = index
                 /\ new.implicit # Some(TRUE)
                 /\ BodyOf(new) = body
                 /\ new.deps \in {None, Some(DepsOfBody(body))}]_vars

\* addInputFiles has been handed the explicit a.js while the file set held
\* the implicit a.js that links to b.js: the file at a.js is no longer
\* implicit and has the data and hash of the explicit file, but its
\* dataString is still the module.link line and its deps still hold the edge
\* to b.js.
C28_PlaceholderBodySurvives ==
  /\ last.op = "addInputFiles" /\ last.input = <<4>> /\ last.thrown = ""
  /\ toLowerCase(pathJoin(sourceRoot, <<"a.js">>)) \in DOMAIN absPathToOutputIndex
  /\ LET file == heap[outputFiles[absPathToOutputIndex[
                    toLowerCase(pathJoin(sourceRoot, <<"a.js">>))]]]
     IN /\ file.implicit = Some(FALSE)
        /\ file.data = Some(Utf8(<< Text("a") >>))
        /\ file.hash = Some(sha1(Utf8(<< Text("a") >>)))
        /\ file.dataString = Some(<< Tok("module.link", <<".", "b.js">>) >>)
        /\ IsSome(file.deps)
        /\ \E i \in DOMAIN Get(file.deps) : Get(file.deps)[i].id = <<".", "b.js">>

\* What does hold of such a replacement: the location keeps its index and its
\* object, which is no longer implicit and has the data and the hash of the
\* explicit file.
C28_ReplacedInPlace ==
  [][(IsAddInputStep /\ last'.thrown = "")
       => \A k \in DOMAIN last'.input :
            ReplacesPlaceholder(k) =>
              LET seed == InputSeed(k)
                  index == absPathToOutputIndex[InstallKey(seed)]
              IN /\ absPathToOutputIndex'[InstallKey(seed)] = index
                 /\ outputFiles'[index] = outputFiles[index]
                 /\ heap'[outputFiles[index]].implicit = Some(FALSE)
                 /\ heap'[outputFiles[index]].data = seed.data
                 /\ heap'[outputFiles[index]].hash = seed.hash]_vars

\* A step of mergeMissing.
IsMergeStep == last'.op = "mergeMissing" /\ calls' = calls + 1

\* The list a map holds for a specifier, empty when it holds none.
ListOf(map, id) == IF id \in DOMAIN map THEN map[id] ELSE <<>>

\* The entries of a list that mergeMissing appends to the target list old:
\* those without a parentPath and those whose parentPath old does not hold.
RECURSIVE Appended(_, _)
Appended(old, list) ==
  IF list = <<>> THEN <<>>
  ELSE (IF IsSome(Head(list).parentPath)
           /\ \E i \in DOMAIN old : old[i].parentPath = Head(list).parentPath
        THEN <<>> ELSE << Head(list) >>)
       \o Appended(old, Tail(list))

HasNpmComponent(absModuleId) ==
  \E i \in DOMAIN absModuleId :
    /\ absModuleId[i] = "node_modules"
    /\ ~ (i = 2 /\ absModuleId[1] = "" /\ Len(absModuleId) >= 3
            /\ absModuleId[3] = "meteor")
    /\ ~ (i = 1 /\ Len(absModuleId) >= 2 /\ absModuleId[2] = "meteor")

\* The location of a file: readDepFile sets sourcePath, not absPath.
PathOf(file) == pathJoin(sourceRoot, file.sourcePath)

\* The file has the body of the stub.
IsUseNodeStub(file) == file.dataString = Some(<< Text("module.useNode();") >>)

\* The paths, relative to the source root, at which the files handed in by
\* plugins are installed.
SeedPaths ==
  { Seeds[k].sourcePath : k \in DOMAIN Seeds }
  \cup { Get(Seeds[k].targetPath) : k \in { j \in DOMAIN Seeds : IsSome(Seeds[j].targetPath) } }

\* The file is one that readDepFile has loaded: lazy, not handed in by a
\* plugin, not an implicit helper or alias stub.
IsLoadedDep(file) ==
  /\ file.lazy = Some(TRUE)
  /\ file.implicit = None
  /\ file.sourcePath \notin SeedPaths

\* The files of the file set that readDepFile has loaded.
LoadedDeps ==
  { r \in { outputFiles[i] : i \in DOMAIN outputFiles } : IsLoadedDep(heap[r]) }

\* The file set holds the module at target for a file that is not a stub and
\* imports it.
ImportedByOther(target) ==
  \E i \in DOMAIN outputFiles :
    LET g == heap[outputFiles[i]] IN
    /\ ~ IsUseNodeStub(g)
    /\ IsSome(g.deps)
    /\ \E d \in DOMAIN Get(g.deps) :
         toLowerCase(Candidate(Get(g.deps)[d].id, PathOf(g))) = target

\* C30: on a server architecture a dependency whose module identifier has a
\* node_modules component other than a leading /node_modules/meteor, loaded
\* while no file of its real path is known, is the stub module.useNode(); with
\* empty deps, and no module that the module on disk imports is in the file
\* set unless another file imports it; a module under /node_modules/meteor
\* with no further node_modules component is never the stub; on a web
\* architecture no file of the file set is the stub.
C30_NpmModulesAreStubsOnServer ==
  /\ isWeb => \A i \in DOMAIN outputFiles : ~ IsUseNodeStub(heap[outputFiles[i]])
  /\ \A r \in { outputFiles[i] : i \in DOMAIN outputFiles } :
       IsUseNodeStub(heap[r])
       => /\ ~ isWeb
          /\ IsLoadedDep(heap[r])
          /\ HasNpmComponent(heap[r].absModuleId)
          /\ heap[r].deps = Some(<<>>)
          /\ heap[r].missingModules = EmptyMap
          /\ \A n \in DOMAIN DiskBody(PathOf(heap[r])) :
               LET tok == DiskBody(PathOf(heap[r]))[n] IN
               (IsImportTok(tok) /\ tok.id[1] \in {".", ".."})
               => \/ toLowerCase(Candidate(tok.id, PathOf(heap[r])))
                       \notin DOMAIN absPathToOutputIndex
                  \/ ImportedByOther(toLowerCase(Candidate(tok.id, PathOf(heap[r]))))
  /\ ~ isWeb =>
       \A r \in { outputFiles[i] : i \in DOMAIN outputFiles } :
         (/\ HasNpmComponent(heap[r].absModuleId)
          /\ ~ IsUseNodeStub(heap[r])
          /\ IsLoadedDep(heap[r]))
         => /\ realPath(PathOf(heap[r])) \in DOMAIN realPathToFiles
            /\ realPathToFiles[realPath(PathOf(heap[r]))][1] # r

\* scanImports has scanned the main module of the package pkg on a server
\* architecture: util.js, whose identifier is under /node_modules/meteor/pkg,
\* was read from disk, index.js of the npm package @s/a is the stub with
\* empty deps, and node.js, which index.js imports on disk, is not in the
\* file set.
C30_Witness ==
  /\ last.op = "scanImports" /\ last.thrown = ""
  /\ ~ isWeb /\ name = "pkg"
  /\ \E r \in LoadedDeps :
       /\ heap[r].absModuleId = <<"", "node_modules", "meteor", "pkg", "util.js">>
       /\ heap[r].dataString = Some(<< Text("u") >>)
       /\ heap[r].imported = "static"
  /\ \E r \in LoadedDeps :
       /\ PathOf(heap[r]) = <<"", "app", "node_modules", "@s", "a", "index.js">>
       /\ IsUseNodeStub(heap[r])
       /\ heap[r].deps = Some(<<>>)
       /\ heap[r].imported = "static"
  /\ toLowerCase(<<"", "app", "node_modules", "@s", "a", "node.js">>)
       \notin DOMAIN absPathToOutputIndex

\* On a server architecture node_modules/x.js, a link to lib/x.js, has been
\* loaded while lib/x.js was in the file set: it has the body of lib/x.js,
\* not the stub.
C30_WitnessKnownRealPath ==
  /\ ~ isWeb
  /\ \E r \in LoadedDeps :
       /\ PathOf(heap[r]) = <<"", "app", "node_modules", "x.js">>
       /\ HasNpmComponent(heap[r].absModuleId)
       /\ ~ IsUseNodeStub(heap[r])
       /\ realPathToFiles[realPath(PathOf(heap[r]))][1] # r

\* The files that this step has added to the file set.
AddedInStep ==
  { outputFiles'[i] : i \in DOMAIN outputFiles' }
    \ { outputFiles[i] : i \in DOMAIN outputFiles }

\* The file r is a dependency loaded in this step while a file of its real
\* path was listed in realPathToFiles.
LoadedWithKnownRealPath(r) ==
  /\ r \in AddedInStep
  /\ IsLoadedDep(heap'[r])
  /\ realPath(PathOf(heap'[r])) \in DOMAIN realPathToFiles
  /\ realPathToFiles[realPath(PathOf(heap'[r]))] # <<>>

\* C31: a dependency loaded while a file of its real path is listed in
\* realPathToFiles has the data, the dataString and the hash of the first
\* file listed there, on every architecture and whatever its module
\* identifier (so it is neither the module.useNode(); stub nor the text on
\* disk), the first file's hash is the one it had before, and the new file is
\* listed behind it under the same real path.
C31_KnownRealPathIsReused ==
  [][\A r \in DOMAIN heap' :
       LoadedWithKnownRealPath(r) =>
         LET real == realPath(PathOf(heap'[r]))
             first == realPathToFiles[real][1]
         IN /\ realPathToFiles'[real][1] = first
            /\ \E n \in DOMAIN realPathToFiles'[real] :
                 n > 1 /\ realPathToFiles'[real][n] = r
            /\ heap'[r].data = heap'[first].data
            /\ heap'[r].dataString = heap'[first].dataString
            /\ heap'[r].hash = heap'[first].hash
            /\ heap'[first].hash = heap[first].hash
            /\ IsSome(heap'[r].dataString)]_vars

\* On a server architecture scanImports has loaded node_modules/x.js, a link
\* to lib/x.js, while the file lib/x.js that a plugin handed in was listed:
\* it has the hash and the body of that file, which is neither the stub nor
\* the text of lib/x.js on disk.
C31_Witness ==
  /\ last.op = "scanImports" /\ ~ isWeb
  /\ \E r \in LoadedDeps :
       /\ PathOf(heap[r]) = <<"", "app", "node_modules", "x.js">>
       /\ HasNpmComponent(heap[r].absModuleId)
       /\ heap[r].hash = Seeds[8].hash
       /\ heap[r].dataString = Some(BodyOf(Seeds[8]))
       /\ heap[r].dataString # Some(DiskBody(<<"", "app", "lib", "x.js">>))
       /\ ~ IsUseNodeStub(heap[r])
       /\ Len(realPathToFiles[<<"", "app", "lib", "x.js">>]) = 2
       /\ realPathToFiles[<<"", "app", "lib", "x.js">>][2] = r

\* The Resolution, after the step, of the k-th dependency of a file.
ResolutionOf(file, k) ==
  ResolverResolve(ScannerStateAfter, Get(file.deps)[k].id,
                  pathJoin(sourceRoot, file.sourcePath))

\* The Resolution, after the step, of a specifier of the map handed to
\* scanMissingModules, which is resolved from the synthetic parent fake.js.
ResolutionOfInput(id) ==
  ResolverResolve(ScannerStateAfter, id, pathJoin(sourceRoot, <<"fake.js">>))

\* The imported status the walk of the step gives to what the k-th dependency
\* of the walked file leads to.
EdgeStatus(file, k) ==
  LET info == Get(file.deps)[k].info IN
  IF file.imported = "static" /\
     ~ (isWebBrowser /\ (info.parentWasDynamic \/ info.dynamic))
  THEN "static" ELSE "dynamic"

\* The same for a specifier of the map handed to scanMissingModules: static
\* when its list holds an ImportInfo that is neither dynamic nor
\* parentWasDynamic, and anywhere but on web.browser.
InputStatus(list) ==
  IF ~ isWebBrowser \/ \E n \in DOMAIN list : ~ IsDynamicInfo(list[n])
  THEN "static" ELSE "dynamic"

\* The package.json module at pkgJsonPath is in the file set after the step
\* with at least the given status; one the step has added is lazy, and is
\* implicit unless the step has upgraded it.
HelperPresent(pkgJsonPath, status) ==
  LET h == getFile(ScannerStateAfter, pkgJsonPath) IN
  /\ h # -1
  /\ importedStatusOrder(heap'[h].imported) >= importedStatusOrder(status)
  /\ h \in AddedInStep =>
       /\ heap'[h].lazy = Some(TRUE)
       /\ heap'[h].implicit \in {Some(TRUE), Some(FALSE)}
       /\ heap'[h].implicit = Some(TRUE) => ~ IsSome(heap'[h].dataString)

\* The relative identifier of the package.json module at pkgJsonPath is a
\* key of the helpers of the k-th dependency of the file.
HelperRecorded(file, k, pkgJsonPath) ==
  getRelativeImportId(file.absModuleId,
                      heap'[getFile(ScannerStateAfter, pkgJsonPath)].absModuleId)
    \in DOMAIN Get(file.deps)[k].info.helpers

\* The file r of the file set is what an import walked in this step has
\* resolved to: a dependency of a walked file, or a specifier of the map
\* handed to scanMissingModules.
TargetedInStep(r) ==
  \/ \E w \in WalkedInStep : \E k \in DOMAIN Get(heap'[w].deps) :
       /\ Get(heap'[w].deps)[k].id \notin DOMAIN heap'[w].missingModules
       /\ ResolutionOf(heap'[w], k).status = "resolved"
       /\ getFile(ScannerStateAfter, ResolutionOf(heap'[w], k).path) = r
  \/ /\ IsScanMissingStep
     /\ \E i \in DOMAIN last'.input :
          /\ ResolutionOfInput(last'.input[i].id).status = "resolved"
          /\ getFile(ScannerStateAfter,
                     ResolutionOfInput(last'.input[i].id).path) = r

\* The package.json module r is the manifest read from disk: not implicit,
\* with the parsed manifest as jsonData and its CommonJS wrapping as
\* dataString and data.
IsFullManifest(r, absPath) ==
  /\ heap'[r].implicit = Some(FALSE)
  /\ IsSome(readPackageJson(absPath))
  /\ heap'[r].jsonData = Get(readPackageJson(absPath)).jsonData
  /\ heap'[r].dataString = Get(readPackageJson(absPath)).dataString
  /\ heap'[r].data = Get(readPackageJson(absPath)).data
  /\ heap'[r].hash = Get(readPackageJson(absPath)).hash

\* C32: in a step of scanImports or scanMissingModules that does not throw,
\* for every import the step has resolved with a packageJsonMap (a dependency
\* of a walked file, or a specifier of the map handed to scanMissingModules),
\* every package.json path of the map has a file in the file set whose
\* imported status is at least the status of the edge, lazy and implicit if
\* the step has created it and not upgraded it, and, when the importer has a
\* module identifier, the relative identifier of that file is a key of the
\* helpers of the importer's dependency; and every implicit package.json
\* module of the file set that an import of the step resolves to is, after
\* the step, the same object at the same place of the file set, not implicit,
\* holding the manifest read from disk.
C32_PackageJsonHelpers ==
  [][((IsScanImportsStep \/ IsScanMissingStep) /\ last'.thrown = "")
       => /\ \A w \in WalkedInStep : \A k \in DOMAIN Get(heap'[w].deps) :
               (/\ Get(heap'[w].deps)[k].id \notin DOMAIN heap'[w].missingModules
                /\ ResolutionOf(heap'[w], k).status = "resolved")
                 => \A j \in DOMAIN ResolutionOf(heap'[w], k).packageJsonMap :
                      LET pkgJsonPath ==
                            ResolutionOf(heap'[w], k).packageJsonMap[j].path
                      IN /\ HelperPresent(pkgJsonPath, EdgeStatus(heap'[w], k))
                         /\ heap'[w].absModuleId # <<>>
                              => HelperRecorded(heap'[w], k, pkgJsonPath)
          /\ IsScanMissingStep =>
               \A i \in DOMAIN last'.input :
                 ResolutionOfInput(last'.input[i].id).status = "resolved"
                   => \A j \in DOMAIN
                             ResolutionOfInput(last'.input[i].id).packageJsonMap :
                        HelperPresent(
                          ResolutionOfInput(last'.input[i].id).packageJsonMap[j].path,
                          InputStatus(last'.input[i].list))
          /\ \A n \in DOMAIN outputFiles :
               LET r == outputFiles[n] IN
               (/\ heap[r].implicit = Some(TRUE)
                /\ IsSome(heap[r].jsonData)
                /\ EndsWithPackageJson(heap[r].absModuleId)
                /\ TargetedInStep(r))
                 => /\ outputFiles'[n] = r
                    /\ IsFullManifest(r, pathJoin(sourceRoot, heap[r].sourcePath))
                    /\ importedStatusOrder(heap'[r].imported)
                         >= importedStatusOrder(heap[r].imported)]_vars

\* A file of the application has imported the package react, with the
\* implicit module of react's package.json recorded among the helpers of that
\* import and marked static.
C32_Witness ==
  /\ last.op = "scanImports" /\ last.thrown = ""
  /\ \E i \in DOMAIN outputFiles :
       LET F == heap[outputFiles[i]] IN
       /\ F.absModuleId = <<"", "main.js">>
       /\ F.imported = "static" /\ IsSome(F.deps)
       /\ \E k \in DOMAIN Get(F.deps) :
            /\ Get(F.deps)[k].id = <<"react">>
            /\ <<".", "node_modules", "react", "package.json">>
                 \in DOMAIN Get(F.deps)[k].info.helpers
  /\ \E h \in DOMAIN outputFiles :
       /\ heap[outputFiles[h]].absModuleId
            = <<"", "node_modules", "react", "package.json">>
       /\ heap[outputFiles[h]].implicit = Some(TRUE)
       /\ heap[outputFiles[h]].lazy = Some(TRUE)
       /\ heap[outputFiles[h]].imported = "static"
       /\ Get(heap[outputFiles[h]].jsonData) = ResolverPkg(
            <<"", "app", "node_modules", "react", "package.json">>)

\* On web.browser a dynamic import of react had left the implicit module of
\* its package.json marked dynamic; scanMissingModules was then handed
\* react/package.json and has upgraded that module: it is not implicit, is
\* static, and holds the scripts field that the Resolver's subset lacks.
C32_WitnessUpgraded ==
  /\ last.op = "scanMissingModules" /\ last.thrown = ""
  /\ isWebBrowser
  /\ \E i \in DOMAIN last.input : last.input[i].id = <<"react", "package.json">>
  /\ \E h \in DOMAIN outputFiles :
       /\ heap[outputFiles[h]].absModuleId
            = <<"", "node_modules", "react", "package.json">>
       /\ heap[outputFiles[h]].implicit = Some(FALSE)
       /\ heap[outputFiles[h]].imported = "static"
       /\ Get(heap[outputFiles[h]].jsonData).scripts
       /\ ~ ResolverPkg(<<"", "app", "node_modules", "react",
                          "package.json">>).scripts
       /\ h < Len(outputFiles)

\* A call of scanMissingModules returns as newly missing no specifier that
\* allMissingModules held before the call, and leaves every specifier it
\* returns in allMissingModules.
NewlyMissingIsNewAndKept ==
  /\ DOMAIN last'.newlyMissing \cap DOMAIN allMissingModules = {}
  /\ DOMAIN last'.newlyMissing \subseteq DOMAIN allMissingModules'

\* Whatever order the specifiers of the pending newlyMissing are listed in,
\* the next round of the loop returns another newlyMissing than the last.
RoundChangesState ==
  LoopPending =>
    \A ids \in KeyOrders(last.newlyMissing) :
      scanMissingModules(
        ScannerState,
        [i \in DOMAIN ids |-> MissingEntry(ids[i], last.newlyMissing[ids[i]])]
      ).newlyMissing # last.newlyMissing

\* C33: on a file system that does not change, the loop that calls
\* scanMissingModules with the newlyMissing of the previous call reaches an
\* empty newlyMissing: every call returns only specifiers that were not in
\* allMissingModules and leaves them there, no call ever removes a specifier
\* from allMissingModules (so no specifier is returned as newly missing by two
\* calls), and a loop that is pending always leads to a call that returns an
\* empty newlyMissing.
C33_InstallLoopTerminates ==
  /\ [][IsScanMissingStep => NewlyMissingIsNewAndKept]_vars
  /\ [][DOMAIN allMissingModules \subseteq DOMAIN allMissingModules']_vars
  /\ []RoundChangesState
  /\ LoopPending ~> LoopDone

\* The loop has ended after a round of its own: the last call was handed the
\* misses that the walk of peer.js had left, found them missing again and
\* returned an empty newlyMissing.
C33_Witness ==
  /\ LoopDone
  /\ \E i \in DOMAIN last.input :
       /\ last.input[i].id = <<"react">>
       /\ last.input[i].list[1].parentPath = Some(<<"", "app", "peer.js">>)
  /\ <<"react">> \in DOMAIN allMissingModules
  /\ <<"react">> \notin DOMAIN last.newlyAdded

\* The entries of the log of the last scan that are visits of the file ref.
VisitsOf(ref) == {i \in DOMAIN last.visits : last.visits[i].ref = ref}

\* C34: when scanImports or scanMissingModules has returned, every call of
\* scanFile of its walk that did not return at once has raised the imported
\* status of the file it was called on, so that no file of the heap was
\* walked more than twice, and the walk as a whole made at most two such
\* calls for every file and for every specifier handed in.
C34_EveryVisitPromotes ==
  last.op \in {"scanImports", "scanMissingModules"} =>
    /\ \A i \in DOMAIN last.visits :
         importedStatusOrder(last.visits[i].to)
           > importedStatusOrder(last.visits[i].from)
    /\ \A ref \in DOMAIN heap : Cardinality(VisitsOf(ref)) <= 2
    /\ Len(last.visits) <= 2 * Len(heap) + 2 * Len(last.input)

\* On web.browser one call of scanMissingModules has walked the cycle of
\* lazy.js and deep.js twice: first for a dynamic import of /lazy.js, then for
\* a static import of /deep.js.
C34_Witness ==
  /\ isWebBrowser
  /\ last.op = "scanMissingModules" /\ last.thrown = ""
  /\ \E a, b \in DOMAIN heap :
       /\ heap[a].sourcePath = <<"lazy.js">> /\ heap[b].sourcePath = <<"deep.js">>
       /\ \E k \in DOMAIN Get(heap[a].deps) :
            Get(heap[a].deps)[k].id = <<".", "deep.js">>
       /\ \E k \in DOMAIN Get(heap[b].deps) :
            Get(heap[b].deps)[k].id = <<".", "lazy.js">>
       /\ Cardinality(VisitsOf(a)) = 2 /\ Cardinality(VisitsOf(b)) = 2
       /\ heap[a].imported = "static" /\ heap[b].imported = "static"
       /\ \E i \in VisitsOf(a) :
            last.visits[i].from = "false" /\ last.visits[i].to = "dynamic"
       /\ \E i \in VisitsOf(a) :
            last.visits[i].from = "dynamic" /\ last.visits[i].to = "static"

\* The walk has visited peer.js, which imports itself, once.
C34_WitnessSelfImport ==
  /\ last.op = "scanMissingModules" /\ last.thrown = ""
  /\ \E a \in DOMAIN heap :
       /\ heap[a].sourcePath = <<"peer.js">>
       /\ \E k \in DOMAIN Get(heap[a].deps) :
            Get(heap[a].deps)[k].id = <<".", "peer.js">>
       /\ Cardinality(VisitsOf(a)) = 1
       /\ heap[a].imported = "static"

\* The list holds an ImportInfo that is neither dynamic nor parentWasDynamic.
HasStaticInfo(list) == \E n \in DOMAIN list : ~ IsDynamicInfo(list[n])

HasDynamicInfo(list) == \E n \in DOMAIN list : IsDynamicInfo(list[n])

\* C35: in a step of scanMissingModules on web.browser, for every specifier
\* of the map handed in whose list holds both a static and a dynamic
\* ImportInfo and that the call has not resolved, the record kept for it (the
\* list returned in newlyMissing, or the list of allMissingModules after the
\* call) holds an ImportInfo that is neither dynamic nor parentWasDynamic.
C35_StaticNeedIsKept ==
  [][(IsScanMissingStep /\ isWebBrowser /\ last'.thrown = "")
       => \A i \in DOMAIN last'.input :
            LET id == last'.input[i].id IN
            (/\ HasStaticInfo(last'.input[i].list)
             /\ HasDynamicInfo(last'.input[i].list)
             /\ id \notin DOMAIN last'.newlyAdded)
              => \/ /\ id \in DOMAIN last'.newlyMissing
                    /\ HasStaticInfo(last'.newlyMissing[id])
                 \/ /\ id \in DOMAIN allMissingModules'
                    /\ HasStaticInfo(allMissingModules'[id])]_vars

\* On web.browser scanMissingModules was handed react with a dynamic and a
\* static ImportInfo, react is not installed, and the only ImportInfo kept
\* for react, in newlyMissing and in allMissingModules, is the one recorded
\* for the dynamic scan of fake.js.
C35_OnlyDynamicKept ==
  /\ isWebBrowser /\ ~ installed
  /\ last.op = "scanMissingModules" /\ last.thrown = ""
  /\ \E i \in DOMAIN last.input :
       /\ last.input[i].id = <<"react">>
       /\ HasStaticInfo(last.input[i].list) /\ HasDynamicInfo(last.input[i].list)
  /\ <<"react">> \in DOMAIN last.newlyMissing
  /\ Len(last.newlyMissing[<<"react">>]) = 1
  /\ last.newlyMissing[<<"react">>][1].parentPath = Some(<<"", "app", "fake.js">>)
  /\ last.newlyMissing[<<"react">>][1].parentWasDynamic
  /\ allMissingModules[<<"react">>] = last.newlyMissing[<<"react">>]

\* The objects of the file set.
FileSet == { outputFiles[i] : i \in DOMAIN outputFiles }

\* The objects listed under the real path of the file's absPath.
ListedWith(file) ==
  IF realPath(file.absPath) \in DOMAIN realPathToFiles
  THEN { realPathToFiles[realPath(file.absPath)][k] :
           k \in DOMAIN realPathToFiles[realPath(file.absPath)] }
  ELSE {}

\* The file is one that addInputFiles was handed, or that took the fields of
\* one: addInputFiles alone sets absPath (a package.json read from disk has
\* one as well, and jsonData).
IsSeedFile(file) == file.absPath # <<>> /\ ~ IsSome(file.jsonData)

\* C36: in every reachable state every object listed in realPathToFiles is an
\* object of the file set, and every file of the file set that was handed to
\* addInputFiles is listed under its real path.
C36_RealPathIndexMatchesFileSet ==
  /\ \A real \in DOMAIN realPathToFiles :
       \A k \in DOMAIN realPathToFiles[real] :
         realPathToFiles[real][k] \in FileSet
  /\ \A r \in FileSet : IsSeedFile(heap[r]) => r \in ListedWith(heap[r])

\* addInputFiles has combined a file into the file of the file set at its
\* location: the file set still holds the old object, and the object that was
\* handed in, which is in no file set, is listed behind it under the real
\* path.
C36_CombinedFileIsListed ==
  /\ last.op = "addInputFiles" /\ last.thrown = ""
  /\ \E real \in DOMAIN realPathToFiles :
       LET files == realPathToFiles[real] IN
       /\ Len(files) = 2
       /\ files[1] \in FileSet /\ files[2] \notin FileSet
       /\ heap[files[1]].absPath = heap[files[2]].absPath
       /\ heap[files[1]].implicit # Some(TRUE)

\* addInputFiles has replaced an implicit placeholder: the object of the file
\* set, which now has the fields of the file handed in, is listed under no
\* real path, and the only object listed under its real path is the one that
\* was handed in, which is in no file set.
C36_ReplacedPlaceholderIsNotListed ==
  /\ last.op = "addInputFiles" /\ last.thrown = ""
  /\ \E r \in FileSet :
       /\ IsSeedFile(heap[r])
       /\ heap[r].implicit = Some(FALSE)
       /\ r \notin ListedWith(heap[r])
       /\ \E o \in ListedWith(heap[r]) :
            /\ o \notin FileSet
            /\ heap[o].absPath = heap[r].absPath
            /\ heap[o].data = heap[r].data

====
